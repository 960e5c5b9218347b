------------------------------ MODULE EosSync ------------------------------
(***************************************************************************)
(* The library (EosSyncLib with its EosSyncData, its EosOsc send queue and *)
(* its connection) against an Eos console, over a reliable FIFO connection *)
(* in each direction.                                                      *)
(*                                                                         *)
(* The library does something only when the application calls Tick or      *)
(* ClearDirty.  A Tick is one atomic step, as in the code: the connection, *)
(* the subscription, the mirror's requests, the packets that have arrived  *)
(* (any number of them, none included), and one packet from the send queue.*)
(*                                                                         *)
(* The console is not part of the repository.  It is modelled after the    *)
(* protocol document kept beside the code ("Eos Integration via OSC"): it  *)
(* answers requests one at a time, in order, and announces each change to  *)
(* a subscribed client when the change happens.                            *)
(***************************************************************************)
EXTENDS SequencesExt, EosSyncData

CONSTANTS
  ShowTargets,          \* the keys the targets of each list of the show may have
  Contents,             \* what a target may be: records [uid, label]
  NoContent,            \* a target that does not exist
  Garbled,              \* what no target of the show can be
  InitialConnect,       \* the connection states Initialize may leave behind
  ArgsPerPacket,        \* the console splits longer replies into lists of packets
  Changes,              \* the kinds of change made to the show, of ChangeKind
  InitialShows,         \* bound: the shows the console may start with
  MaxEdits              \* bound: how often the show is changed

ShowLists == DOMAIN ShowTargets

ChangeKind == {"target", "swap", "list", "cuelist", "load"}

ASSUME ContentsAssumption == Contents \subseteq [uid : Uid, label : Val \ {Empty}]
ASSUME ShowTargetsAssumption ==
  \A key \in ShowLists : /\ key \in ListKey
                         /\ key[1] \in SubscribedTypes \cup {"CUE"}
                         /\ \A k \in ShowTargets[key] :
                              k \in Key /\ k[1] >= 1 /\ ValidPart(key[1], k[2])
ASSUME ShowCuesAssumption ==
  \A key \in ShowLists : key[1] = "CUE" =>
    <<"CUELIST", 0>> \in ShowLists /\ <<key[2], 0>> \in ShowTargets[<<"CUELIST", 0>>]
ASSUME AbsentPartAssumption == "PATCH" \in SubscribedTypes => 1 \in Part
ASSUME ConnectAssumption == InitialConnect \subseteq {"IN_PROGRESS", "CONNECTED"}
ASSUME BoundsAssumption ==
  ArgsPerPacket \in Nat \ {0} /\ MaxEdits \in Nat /\ Changes \subseteq ChangeKind

VARIABLES
  connect,              \* EosTcp::m_ConnectState
  data,                 \* EosSyncLib::m_Data
  sendQ,                \* EosOsc::m_Q
  toConsole, toClient,  \* packets on their way
  show,                 \* the show on the console
  subscribed,           \* the console announces changes to the library
  edits,                \* how many changes were made
  unseen                \* history: a synchronised mirror the application has not read

clientVars == <<connect, data, sendQ>>
consoleVars == <<show, subscribed, edits>>
vars == <<clientVars, toConsole, toClient, consoleVars, unseen>>

\* What a list of the show may hold: its UIDs are distinct.
TargetsOfList(key) ==
  {f \in [ShowTargets[key] -> Contents \cup {NoContent}] :
     \A j, k \in ShowTargets[key] :
       f[j] # NoContent /\ f[k] # NoContent /\ f[j].uid = f[k].uid => j = k}

NoTargets(key) == [k \in ShowTargets[key] |-> NoContent]

\* Cues are in cue lists.
CuesHaveLists(s) ==
  \A key \in ShowLists : key[1] = "CUE" /\ s[key] # NoTargets(key) =>
    s[<<"CUELIST", 0>>][<<key[2], 0>>] # NoContent

Shows ==
  {s \in [ShowLists -> UNION {TargetsOfList(key) : key \in ShowLists}] :
     /\ \A key \in ShowLists : s[key] \in TargetsOfList(key)
     /\ CuesHaveLists(s)}

ASSUME GarbledAssumption == Garbled \notin Shows
ASSUME InitialShowsAssumption == InitialShows \subseteq Shows

KeyBefore(j, k) == j[1] < k[1] \/ (j[1] = k[1] /\ j[2] < k[2])

\* The keys a list of the show has targets at.
TargetKeys(s, key) ==
  IF key \in ShowLists THEN {k \in ShowTargets[key] : s[key][k] # NoContent} ELSE {}

\* They are answered in the order of the console's index.
Existing(s, key) == InOrder(TargetKeys(s, key), KeyBefore)

OfNumber(s, key, n) == InOrder({k \in TargetKeys(s, key) : k[1] = n}, KeyBefore)

----------------------------------------------------------------------------
(* The console's answers. *)

ContentArgs(c) == <<Empty, c.uid, c.label>>

\* The property groups of a type, the base group first.
GroupSequence(type) == <<General>> \o SetToSeq(PropGroups(type) \ {General})

TargetReply(key, k, group, offset, args, size) ==
  [kind |-> "target", type |-> key[1], listId |-> key[2],
   pathData |-> PathData(k[1], k[2], group, offset, size), args |-> args]

\* One property group, as one packet or as a list of packets.
GroupReplies(key, k, group, args) ==
  [i \in 1..((Len(args) + ArgsPerPacket - 1) \div ArgsPerPacket) |->
     LET first == (i - 1) * ArgsPerPacket
         last  == IF first + ArgsPerPacket < Len(args) THEN first + ArgsPerPacket ELSE Len(args)
     IN  TargetReply(key, k, group, first, SubSeq(args, first + 1, last), Len(args))]

TargetReplies(s, key, k) ==
  FlattenSeq([i \in DOMAIN GroupSequence(key[1]) |->
                GroupReplies(key, k, GroupSequence(key[1])[i], ContentArgs(s[key][k]))])

\* The base group of a target that does not exist has no arguments.
AbsentReply(key, n) ==
  TargetReply(key, <<n, IF key[1] = "PATCH" THEN 1 ELSE 0>>, General, 0, <<>>, 0)

AnswerTo(s, req) ==
  LET key      == <<req.type, req.listId>>
      existing == Existing(s, key)
      ofNumber == OfNumber(s, key, req.num)
  IN  CASE req.kind = "count" ->
             <<[kind |-> "count", type |-> req.type, listId |-> req.listId,
                args |-> <<Len(existing)>>]>>
        [] req.kind = "index" ->
             IF req.index < Len(existing)
             THEN TargetReplies(s, key, existing[req.index + 1]) ELSE <<>>
        [] req.kind = "target" ->
             IF ofNumber = <<>> THEN <<AbsentReply(key, req.num)>>
             ELSE FlattenSeq([i \in DOMAIN ofNumber |-> TargetReplies(s, key, ofNumber[i])])

----------------------------------------------------------------------------
(* The library. *)

Subscribe == [kind |-> "subscribe"]

\* EosTcp::Tick: a connection in progress may have been established.
TcpTick(c) == IF c = "IN_PROGRESS" THEN {"IN_PROGRESS", "CONNECTED"} ELSE {c}

Becomes(d) ==
  /\ data' = d
  /\ unseen' = (unseen \/ (d.status.value = "COMPLETE" /\ data.status.value # "COMPLETE"))

\* Mutant of TickConnected: subscribes only when the mirror is synchronised.
TickConnectedSubscribingLate(n) ==
  LET run   == DataTick(data, SubSeq(toClient, 1, n))
      late  == run.data.status.value = "COMPLETE" /\ data.status.value # "COMPLETE"
      queue == sendQ \o run.sent \o (IF late THEN <<Subscribe>> ELSE <<>>)
  IN  /\ connect' = "CONNECTED"
      /\ Becomes(run.data)
      /\ toClient' = SubSeq(toClient, n + 1, Len(toClient))
      /\ sendQ' = IF queue = <<>> THEN queue ELSE Tail(queue)
      /\ toConsole' = IF queue = <<>> THEN toConsole ELSE Append(toConsole, Head(queue))
      /\ UNCHANGED consoleVars

\* EosSyncLib::Tick, when n packets have arrived.
TickConnected(n) ==
  LET subscription == IF connect # "CONNECTED" THEN <<Subscribe>> ELSE <<>>
      run   == DataTick(data, SubSeq(toClient, 1, n))
      queue == sendQ \o subscription \o run.sent
  IN  /\ connect' = "CONNECTED"
      /\ Becomes(run.data)
      /\ toClient' = SubSeq(toClient, n + 1, Len(toClient))
      /\ sendQ' = IF queue = <<>> THEN queue ELSE Tail(queue)
      /\ toConsole' = IF queue = <<>> THEN toConsole ELSE Append(toConsole, Head(queue))
      /\ UNCHANGED consoleVars

Tick(n) ==
  \/ "CONNECTED" \in TcpTick(connect) /\ TickConnected(n)
  \/ "IN_PROGRESS" \in TcpTick(connect) /\ UNCHANGED vars

\* An application that polls the dirty flag, as main.cpp does.
ClearDirtyFlag ==
  /\ data.status.dirty
  /\ data' = ClearDirtyData(data)
  /\ unseen' = FALSE
  /\ UNCHANGED <<connect, sendQ, toConsole, toClient, consoleVars>>

----------------------------------------------------------------------------
(* The console. *)

Answer ==
  /\ toConsole # <<>>
  /\ toConsole' = Tail(toConsole)
  /\ LET req == Head(toConsole)
     IN  IF req = Subscribe
         THEN subscribed' = TRUE /\ UNCHANGED toClient
         ELSE toClient' = toClient \o AnswerTo(show, req) /\ UNCHANGED subscribed
  /\ UNCHANGED <<clientVars, show, edits, unseen>>

\* The show becomes s.  The first message about a change carries, for the
\* refinement mapping only, the show as it was before; the others Garbled.
Announcing(m) == [m EXCEPT !.before = show]

ChangeShow(kind, s, announcement) ==
  /\ kind \in Changes /\ edits < MaxEdits
  /\ s \in Shows \ {show}
  /\ show' = s
  /\ edits' = edits + 1
  /\ toClient' = toClient \o announcement
  /\ UNCHANGED <<clientVars, toConsole, subscribed, unseen>>

NotifyMessage(key, nums, hasArgs) ==
  [kind |-> "notify", type |-> key[1], listId |-> key[2], nums |-> nums, hasArgs |-> hasArgs,
   before |-> Garbled]

ShowEvent == [kind |-> "show", before |-> Garbled]

\* Only a subscribed client is notified.
Notification(messages) ==
  IF subscribed THEN <<Announcing(Head(messages))>> \o Tail(messages) ELSE <<>>

\* One target is recorded, changed or deleted.
EditTarget == \E key \in ShowLists : \E k \in ShowTargets[key], c \in Contents \cup {NoContent} :
  ChangeShow("target", [show EXCEPT ![key][k] = c],
             Notification(<<NotifyMessage(key, {k[1]}, TRUE)>>))

\* Two targets change places in one step (a move), announced together.
SwapTargets == \E key \in ShowLists : \E j, k \in ShowTargets[key] :
  ChangeShow("swap", [show EXCEPT ![key] = [@ EXCEPT ![j] = show[key][k], ![k] = show[key][j]]],
             Notification(<<NotifyMessage(key, {j[1], k[1]}, TRUE)>>))

\* A whole list changes, announced without saying which targets.
EditList == \E key \in ShowLists : \E f \in TargetsOfList(key) :
  ChangeShow("list", [show EXCEPT ![key] = f],
             Notification(<<NotifyMessage(key, {}, FALSE)>>))

\* A cue list is recorded together with its cues, or deleted with them: the list
\* of cue lists is announced first, then the cues.
EditCueList == \E key \in {k \in ShowLists : k[1] = "CUE"} :
  \E c \in Contents \cup {NoContent}, f \in TargetsOfList(key) :
    LET lists   == <<"CUELIST", 0>>
        entry   == <<key[2], 0>>
        changed == {k \in ShowTargets[key] : f[k] # show[key][k]}
        s       == [show EXCEPT ![lists][entry] = c, ![key] = f]
        ofLists == NotifyMessage(lists, {entry[1]}, TRUE)
        ofCues  == NotifyMessage(key, {k[1] : k \in changed}, TRUE)
    IN  /\ changed # {} /\ c # show[lists][entry]
        /\ ChangeShow("cuelist", s, Notification(<<ofLists, ofCues>>))

\* Another show is loaded, or the show is cleared: an event every client gets.
LoadShow == \E s \in Shows : ChangeShow("load", s, <<Announcing(ShowEvent)>>)

----------------------------------------------------------------------------
InitApart ==
  /\ data = NewData
  /\ sendQ = <<>> /\ toConsole = <<>> /\ toClient = <<>>
  /\ show \in InitialShows
  /\ subscribed = FALSE
  /\ edits = 0
  /\ unseen = FALSE

\* The application has called Initialize.
Init == connect \in InitialConnect /\ InitApart

Change == EditTarget \/ SwapTargets \/ EditList \/ EditCueList \/ LoadShow

Next ==
  \/ \E n \in 0..Len(toClient) : Tick(n)
  \/ ClearDirtyFlag
  \/ Answer
  \/ Change

Spec == Init /\ [][Next]_vars

(***************************************************************************)
(* The application keeps calling Tick, so that a step Tick can make on its *)
(* own is eventually made; a pending connection is established; packets    *)
(* that have arrived are eventually read; the console keeps answering.     *)
(* Nothing obliges anyone to change the show.  The first two conjuncts are *)
(* weak fairness with ENABLED spelled out: Tick can always be called, and  *)
(* it changes nothing exactly when it has nothing to do.                   *)
(***************************************************************************)
TickHasWork ==
  \/ connect # "CONNECTED" \/ sendQ # <<>>
  \/ DataTick(data, <<>>) # [data |-> data, sent |-> <<>>]

Fairness ==
  /\ []<>~TickHasWork \/ []<><<\E n \in 0..Len(toClient) : TickConnected(n)>>_vars
  /\ []<>(toClient = <<>>) \/ []<><<\E n \in 1..Len(toClient) : TickConnected(n)>>_vars
  /\ WF_vars(Answer)

FairSpec == Spec /\ Fairness

----------------------------------------------------------------------------
(* What the application sees. *)

IsSynchronized == data.status.value = "COMPLETE"

Values(props) == [j \in DOMAIN props |-> props[j].value]

TargetContent(t) ==
  LET says(c) == \A g \in DOMAIN t.groups : Values(t.groups[g].props) = ContentArgs(c)
  IN  IF \E c \in Contents : says(c) THEN CHOOSE c \in Contents : says(c) ELSE Garbled

\* The targets of a list, those with keys no show has included.
ListContent(key) ==
  LET live == IF key \in DOMAIN data.lists THEN data.lists[key].live ELSE {}
  IN  [k \in ShowTargets[key] \cup live |->
         IF k \in live THEN TargetContent(data.lists[key].target[k]) ELSE NoContent]

MirroredShow == [key \in ShowLists |-> ListContent(key)]

\* What the show was before a change, as the first packet about it says.
ShowBefore(m) ==
  IF m.kind \in {"notify", "show"} /\ m.before # Garbled THEN <<m.before>> ELSE <<>>

\* The shows from the one the library has been told of to the current one.
AnnouncedShows ==
  FlattenSeq([i \in DOMAIN toClient |-> ShowBefore(toClient[i])]) \o <<show>>

Abstract == INSTANCE ShowMirror WITH
  Show      <- Shows,
  Unsynced  <- Garbled,
  MayForget <- FALSE,
  log       <- AnnouncedShows,
  mirror    <- IF IsSynchronized THEN MirroredShow ELSE Garbled

(***************************************************************************)
(* The library implements ShowMirror: whenever IsSynchronized, its targets *)
(* are exactly those of one state of the show, the one it was last told    *)
(* of, whatever edits, moves, loads and late replies are still under way.  *)
(***************************************************************************)
ImplementsShowMirror == Abstract!Spec

(***************************************************************************)
(* Nothing can be lost: a list that waits for its count, and an entry that *)
(* waits for its target, has a request or a reply to it on the way.        *)
(***************************************************************************)
About(m, kind, key) == m.kind = kind /\ m.type = key[1] /\ m.listId = key[2]

Requests == Range(sendQ) \cup Range(toConsole)

CountPending(key) == \E m \in Requests \cup Range(toClient) : About(m, "count", key)

TargetPending(key, n) ==
  \/ \E m \in Requests : About(m, "target", key) /\ m.num = n
  \/ \E m \in Range(toClient) : About(m, "target", key) /\ m.pathData.num = n

WaitsAreAnswered ==
  \A key \in DOMAIN data.lists :
    LET l == data.lists[key]
    IN  /\ l.internal = "RUNNING" => CountPending(key)
        /\ \A n \in Num : l.entry[n] = "initialized" /\ LivePartsOf(l, n) = {} =>
             TargetPending(key, n)

(***************************************************************************)
(* A synchronised mirror has no list of cues without its cue list: the     *)
(* application would see cues of a list that was deleted.                  *)
(***************************************************************************)
NoOrphanedCues ==
  IsSynchronized =>
    \A key \in DOMAIN data.lists : key[1] = "CUE" /\ key[2] # 0 =>
      <<key[2], 0>> \in data.lists[<<"CUELIST", 0>>].live

(***************************************************************************)
(* A synchronised mirror waits for nothing: every list is complete, with   *)
(* a target for each of its entries, no target outside them, every         *)
(* property group of every target, and a counter that agrees with them.    *)
(***************************************************************************)
SynchronizedLists ==
  IsSynchronized =>
    \A key \in DOMAIN data.lists :
      LET l == data.lists[key]
      IN  /\ l.status.value = "COMPLETE"
          /\ l.numTargets = Cardinality(l.live)
          /\ {n \in Num : l.entry[n] # "absent"} = {k[1] : k \in l.live}
          /\ \A k \in l.live : GotAllProps(l.target[k].groups)

(***************************************************************************)
(* Its UID maps agree with its targets: a UID leads to the target that has *)
(* it, and to no other.                                                    *)
(***************************************************************************)
SynchronizedUids ==
  IsSynchronized =>
    \A key \in DOMAIN data.lists :
      LET l == data.lists[key]
      IN  \A w \in Uid, k \in Key :
            l.uidLookup[w] = k <=> k \in l.live /\ TargetContent(l.target[k]).uid = w

(***************************************************************************)
(* Each time the mirror has resynchronised, an application that polls the  *)
(* dirty flag gets to know.                                                *)
(***************************************************************************)
ResyncIsDirty == unseen /\ IsSynchronized => data.status.dirty

(***************************************************************************)
(* Once the show is left alone the mirror becomes, and stays, synchronised *)
(* with what the console has.                                              *)
(***************************************************************************)
EventuallySynchronized == <>[](IsSynchronized /\ MirroredShow = show)
=============================================================================
