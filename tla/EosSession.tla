----------------------------- MODULE EosSession -----------------------------
(***************************************************************************)
(* EosSync with connections that fail and are made again.  The application *)
(* may call Initialize, Tick and Shutdown at any time and in any order;    *)
(* the console may refuse a connection or close it; a send or a recv may   *)
(* fail at any time, with the rest of what was on its way lost.            *)
(*                                                                         *)
(* Shutdown forgets the mirror and closes the socket.  What EosOsc keeps,  *)
(* the send queue and the bytes of a packet received in part, it does not  *)
(* touch, so that the next connection starts with them.                    *)
(***************************************************************************)
EXTENDS EosSync, EosTcp

CONSTANTS
  Platforms,            \* those the library is built for: "Mac", "Win"
  MaxInits              \* bound: how often Initialize is called

ASSUME PlatformsAssumption == Platforms \subseteq {"Mac", "Win"} /\ MaxInits \in Nat

VARIABLES
  platform,             \* the one this library is built for
  socket, wsa, started, \* m_Tcp, together with connect
  peer,                 \* the console's end: "none", "absent", "open" or "closed"
  torn,                 \* m_InputBuffer holds part of a packet of an earlier connection
  inits,                \* how often Initialize was called
  fresh,                \* history: EosOsc held nothing when the connection was made
  missed                \* history: the shows before the changes since the console closed it

tcpVars == <<connect, socket, wsa, started>>
sessionVars == <<vars, platform, socket, wsa, started, peer, torn, inits, fresh, missed>>

tcp == [socket |-> socket, connect |-> connect, wsa |-> wsa, started |-> started]

TcpBecomes(t) ==
  /\ socket' = t.socket /\ connect' = t.connect
  /\ wsa' = t.wsa /\ started' = t.started

\* The socket is closed: the console forgets the subscription, and what was on its
\* way in either direction is lost.
ConnectionGone ==
  /\ peer' = "none"
  /\ toConsole' = <<>> /\ toClient' = <<>>
  /\ subscribed' = FALSE
  /\ missed' = <<>>

ConnectionKept == UNCHANGED <<peer, toConsole, toClient, subscribed, missed>>

----------------------------------------------------------------------------
(* The application. *)

\* EosSyncLib::Initialize.  A list of types, if there is one, resets the mirror
\* whether or not a connection is made.
InitializeLib(withTypes) ==
  /\ inits < MaxInits
  /\ inits' = inits + 1
  /\ Becomes(IF withTypes THEN ClearData(data) ELSE data)
  /\ \E t \in TcpInitialize(platform, tcp, InitialConnect) :
       /\ TcpBecomes(t)
       /\ IF t.socket /\ ~socket
          THEN /\ peer' \in IF t.connect = "CONNECTED" THEN {"open"} ELSE {"open", "absent"}
               /\ fresh' = (sendQ = <<>> /\ ~torn)
          ELSE UNCHANGED <<peer, fresh>>
  /\ UNCHANGED <<sendQ, toConsole, toClient, consoleVars, platform, torn, missed>>

\* Mutant of ShutdownLib: leaves the mirror as it is.
ShutdownKeepingMirror ==
  /\ TcpBecomes(TcpShutdown(platform, tcp))
  /\ ConnectionGone
  /\ torn' \in {torn, torn \/ toClient # <<>>}
  /\ UNCHANGED <<data, unseen, sendQ, show, edits, platform, inits, fresh>>

\* EosSyncLib::Shutdown.  It also sends that it unsubscribes, which closing the
\* connection does too.  The bytes received last may end within a packet.
ShutdownLib ==
  /\ Becomes(ClearData(data))
  /\ TcpBecomes(TcpShutdown(platform, tcp))
  /\ ConnectionGone
  /\ torn' \in {torn, torn \/ toClient # <<>>}
  /\ UNCHANGED <<sendQ, show, edits, platform, inits, fresh>>

(***************************************************************************)
(* The rest of EosSyncLib::Tick, when there is a connection t: subscribe   *)
(* if it is new, let the mirror queue its requests and read what has       *)
(* arrived, and send one packet, which leaves the queue sent or not.       *)
(* Nothing intelligible is read behind half a packet of an earlier         *)
(* connection, and nothing sent reaches a console that is gone.            *)
(***************************************************************************)
TickSubscribing(t, subscription) ==
  \E r \in TcpRecv(t, Len(toClient)) :
    LET run   == DataTick(data, IF torn THEN <<>> ELSE SubSeq(toClient, 1, r.received))
        queue == sendQ \o subscription \o run.sent
    IN  \E s \in IF queue = <<>> THEN {[tcp |-> r.tcp, sent |-> FALSE]} ELSE TcpSend(r.tcp) :
          /\ TcpBecomes(s.tcp)
          /\ Becomes(run.data)
          /\ toClient' = SubSeq(toClient, r.received + 1, Len(toClient))
          /\ sendQ' = IF queue = <<>> THEN queue ELSE Tail(queue)
          /\ toConsole' = IF s.sent /\ peer = "open" THEN Append(toConsole, Head(queue)) ELSE toConsole
          /\ UNCHANGED <<consoleVars, platform, peer, torn, inits, fresh, missed>>

\* Mutant of TickOnline: subscribes on the first connection only.
TickOnlineOnce(t) ==
  TickSubscribing(t, IF connect # "CONNECTED" /\ inits = 1 THEN <<Subscribe>> ELSE <<>>)

TickOnline(t) ==
  TickSubscribing(t, IF connect # "CONNECTED" THEN <<Subscribe>> ELSE <<>>)

TickOffline(t) ==
  /\ TcpBecomes(t)
  /\ IF t.socket THEN ConnectionKept ELSE ConnectionGone
  /\ UNCHANGED <<data, sendQ, show, edits, unseen, platform, torn, inits, fresh>>

Reports == TcpReports(platform, tcp, peer \in {"open", "closed"})

TickReporting(report) ==
  /\ report \in Reports
  /\ LET t == TcpTickOn(platform, tcp, report)
     IN  IF t.connect = "CONNECTED" THEN TickOnline(t) ELSE TickOffline(t)

SessionTick == \E report \in Reports : TickReporting(report)

----------------------------------------------------------------------------
(* The console. *)

Aside == <<platform, socket, wsa, started, torn, inits, fresh>>

\* The console exits, or closes the connection in good order: what it has sent
\* still arrives.
ConsoleCloses ==
  /\ peer = "open"
  /\ peer' = "closed"
  /\ subscribed' = FALSE
  /\ toConsole' = <<>>
  /\ UNCHANGED <<clientVars, toClient, show, edits, unseen, missed, Aside>>

\* The show is changed while no connection to this library exists.
ChangeUnheard ==
  /\ peer # "open" /\ edits < MaxEdits
  /\ \E s \in Shows \ {show} : show' = s
  /\ edits' = edits + 1
  /\ missed' = IF peer = "closed" THEN Append(missed, show) ELSE missed
  /\ UNCHANGED <<clientVars, toConsole, toClient, subscribed, unseen, peer, Aside>>

Elsewhere == UNCHANGED <<peer, missed, Aside>>

----------------------------------------------------------------------------
SessionInit ==
  /\ InitApart /\ connect = "NOT_CONNECTED"
  /\ platform \in Platforms
  /\ socket = FALSE /\ wsa = FALSE /\ started = 0
  /\ peer = "none" /\ torn = FALSE
  /\ inits = 0 /\ fresh = TRUE /\ missed = <<>>

SessionNext ==
  \/ \E withTypes \in BOOLEAN : InitializeLib(withTypes)
  \/ ShutdownLib
  \/ SessionTick
  \/ ClearDirtyFlag /\ Elsewhere
  \/ ConsoleCloses
  \/ ChangeUnheard
  \/ Answer /\ Elsewhere
  \/ peer = "open" /\ Change /\ Elsewhere

SessionSpec == SessionInit /\ [][SessionNext]_sessionVars

(***************************************************************************)
(* As in EosSync the application keeps calling Tick and the console keeps  *)
(* answering while there is a connection.  Nobody has to call Initialize   *)
(* or Shutdown, no connection has to be made, and no operation has to fail.*)
(***************************************************************************)
OnlineWork == connect = "CONNECTED" /\ (sendQ # <<>> \/ DataTick(data, <<>>) # [data |-> data, sent |-> <<>>])

OnlineTick == connect = "CONNECTED" /\ SessionTick

SessionFairness ==
  /\ []<>~OnlineWork \/ []<><<OnlineTick>>_sessionVars
  /\ []<>(toClient = <<>> \/ connect # "CONNECTED")
     \/ []<><<OnlineTick /\ Len(toClient') < Len(toClient)>>_sessionVars
  /\ WF_sessionVars(Answer /\ Elsewhere)

FairSessionSpec == SessionSpec /\ SessionFairness

----------------------------------------------------------------------------
IsConnectedAndSynchronized == connect = "CONNECTED" /\ IsSynchronized

\* The shows from the one the library has been told of to the current one.
SessionLog == Front(AnnouncedShows) \o missed \o <<show>>

SessionMirror == INSTANCE ShowMirror WITH
  Show      <- Shows,
  Unsynced  <- Garbled,
  MayForget <- TRUE,
  log       <- SessionLog,
  mirror    <- IF IsConnectedAndSynchronized /\ fresh THEN MirroredShow ELSE Garbled

(***************************************************************************)
(* The library implements ShowMirror across connections: as long as each   *)
(* connection is made by an EosOsc that holds nothing of an earlier one,   *)
(* what IsConnectedAndSynchronized vouches for is the show last announced, *)
(* whatever failed and whatever was changed while it was not connected.    *)
(***************************************************************************)
ImplementsShowMirrorAcrossSessions == SessionMirror!Spec

(***************************************************************************)
(* The same without the condition on what EosOsc holds, unless it is half  *)
(* a packet: the example of the README prints "all groups in the show"     *)
(* when IsConnectedAndSynchronized, and the application may have called    *)
(* Shutdown and Initialize before.                                         *)
(***************************************************************************)
AnyMirror == INSTANCE ShowMirror WITH
  Show      <- Shows,
  Unsynced  <- Garbled,
  MayForget <- TRUE,
  log       <- SessionLog,
  mirror    <- IF IsConnectedAndSynchronized /\ ~torn THEN MirroredShow ELSE Garbled

MirrorsEveryConnection == AnyMirror!Spec

(***************************************************************************)
(* No mirror is carried from one connection to the next: while a new one   *)
(* is being made there is no list, and nothing reports synchronisation.    *)
(***************************************************************************)
NothingCarriedOver ==
  connect = "IN_PROGRESS" \/ ~socket =>
    data.status.value = "UNINITIALIZED" /\ data.lists = NoLists

(***************************************************************************)
(* Packets are lost only with their connection: while it holds, whatever   *)
(* the library waits for is on its way, also behind requests that an       *)
(* earlier connection has left in the queue (but not behind half a packet).*)
(***************************************************************************)
WaitsAreAnsweredWhileUp ==
  connect = "CONNECTED" /\ peer = "open" /\ ~torn => WaitsAreAnswered

(***************************************************************************)
(* Winsock is started as often as it is cleaned up, apart from the one     *)
(* connection that is open: failures on the way leave nothing behind.      *)
(***************************************************************************)
WinsockPaired ==
  /\ started = IF wsa THEN 1 ELSE 0
  /\ wsa <=> platform = "Win" /\ socket

(***************************************************************************)
(* A connection that has failed does not come back to life: the library    *)
(* keeps its socket, so that Initialize does nothing, until Shutdown.      *)
(***************************************************************************)
BrokenUntilShutdown ==
  [][socket /\ connect = "NOT_CONNECTED" => connect' = "NOT_CONNECTED"]_sessionVars

(***************************************************************************)
(* When a connection holds from some time on, and was made by an EosOsc    *)
(* that held nothing of an earlier one, the mirror is synchronised in the  *)
(* end, whatever has failed before.                                        *)
(***************************************************************************)
ResynchronizesWhenUp ==
  <>[](connect = "CONNECTED" /\ peer = "open" /\ fresh)
    => <>[](IsSynchronized /\ MirroredShow = show)

(***************************************************************************)
(* A connection in progress does not survive what Tick is told of it: each *)
(* of the reports that Tick looks for, refused or failed or made, is       *)
(* enough to end it, if Tick comes upon it whenever it may.                *)
(***************************************************************************)
ConnectingEnds ==
  \A report \in {"SELECT_FAILED", "GETSOCKOPT_FAILED", "SO_ERROR", "MADE"} :
    WF_sessionVars(TickReporting(report)) => (report \in Reports ~> connect # "IN_PROGRESS")

(***************************************************************************)
(* The example program prints "Disconnected" when IsConnected() changes,   *)
(* and leaves its loop: the library has to notice that the console has     *)
(* closed the connection.                                                  *)
(***************************************************************************)
ConsoleGoneIsNoticed == (connect = "CONNECTED" /\ peer = "closed") ~> connect # "CONNECTED"
=============================================================================
