-------------------------- MODULE EosSessionProofs --------------------------
(***************************************************************************)
(* Proofs about EosSession: what Initialize, Tick and Shutdown guarantee   *)
(* about the connection and about the mirror behind it, in whatever order  *)
(* the application calls them, whatever the network does, and for any      *)
(* show, any number of connections and either platform.                    *)
(***************************************************************************)
EXTENDS EosSession, EosSyncProofs

----------------------------------------------------------------------------
(* The connection. *)

(***************************************************************************)
(* What every method of EosTcp keeps: a connection has a socket, and       *)
(* Winsock is started by the connections that have one.                    *)
(***************************************************************************)
GoodTcp(p, t) ==
  /\ t \in [socket : BOOLEAN, connect : ConnectState, wsa : BOOLEAN, started : Int]
  /\ t.connect # "NOT_CONNECTED" => t.socket
  /\ t.started = IF t.wsa THEN 1 ELSE 0
  /\ t.wsa <=> p = "Win" /\ t.socket

(***************************************************************************)
(* Initialize: a connection that exists stays as it is, another begins in  *)
(* one of the states that connect() may leave behind, or not at all.       *)
(***************************************************************************)
LEMMA TcpInitializeGood ==
  ASSUME NEW p \in {"Mac", "Win"}, NEW t, GoodTcp(p, t),
         NEW states \in SUBSET {"IN_PROGRESS", "CONNECTED"},
         NEW u \in TcpInitialize(p, t, states)
  PROVE  GoodTcp(p, u) /\ (t.socket => u = t)
<1>1. CASE t.socket
  BY <1>1 DEF TcpInitialize, InitializeMac, InitializeWin
<1>2. CASE ~t.socket /\ u \in ConnectMac(t, states) /\ p = "Mac"
  <2>1. PICK c \in states : u = [t EXCEPT !.socket = TRUE, !.connect = c]
    BY <1>2 DEF ConnectMac
  <2>2. u = [socket |-> TRUE, connect |-> c, wsa |-> t.wsa, started |-> t.started]
    BY <2>1 DEF GoodTcp
  <2> QED
    BY <1>2, <2>2 DEF GoodTcp, ConnectState
<1>3. CASE ~t.socket /\ p = "Win" /\ u # t
  <2>1. PICK s \in ConnectMac(t, states) : u = [s EXCEPT !.wsa = TRUE, !.started = t.started + 1]
    BY <1>3 DEF TcpInitialize, InitializeWin
  <2>2. PICK c \in states : s = [t EXCEPT !.socket = TRUE, !.connect = c]
    BY <2>1 DEF ConnectMac
  <2>3. s = [socket |-> TRUE, connect |-> c, wsa |-> t.wsa, started |-> t.started]
    BY <2>2 DEF GoodTcp
  <2>4. u = [socket |-> TRUE, connect |-> c, wsa |-> TRUE, started |-> t.started + 1]
    BY <2>1, <2>3
  <2>5. t.started = 0
    BY <1>3 DEF GoodTcp
  <2> QED
    BY <1>3, <2>4, <2>5 DEF GoodTcp, ConnectState
<1>4. u = t \/ (p = "Mac" /\ u \in ConnectMac(t, states)) \/ (p = "Win" /\ u # t)
  BY DEF TcpInitialize, InitializeMac
<1> QED
  BY <1>1, <1>2, <1>3, <1>4

(***************************************************************************)
(* Shutdown leaves no connection.                                          *)
(***************************************************************************)
LEMMA TcpShutdownGood ==
  ASSUME NEW p \in {"Mac", "Win"}, NEW t, GoodTcp(p, t)
  PROVE  GoodTcp(p, TcpShutdown(p, t)) /\ ~TcpShutdown(p, t).socket
<1> DEFINE Record == [socket : BOOLEAN, connect : ConnectState, wsa : BOOLEAN, started : Int]
           s == ShutdownMac(t)
<1>1. s \in Record /\ ~s.socket /\ s.connect = "NOT_CONNECTED" /\ s.wsa = t.wsa /\ s.started = t.started
  BY DEF ShutdownMac, GoodTcp, ConnectState
<1>2. CASE p = "Mac"
  BY <1>1, <1>2 DEF TcpShutdown, GoodTcp, ConnectState
<1>3. CASE p = "Win"
  <2> DEFINE n == IF t.wsa THEN t.started - 1 ELSE t.started
             w == [s EXCEPT !.wsa = FALSE, !.started = n]
  <2>1. n = 0
    BY DEF GoodTcp
  <2>2. w \in Record /\ ~w.socket /\ w.connect = "NOT_CONNECTED" /\ ~w.wsa /\ w.started = 0
    <3>1. n \in Int
      BY <2>1
    <3> HIDE DEF s, n
    <3>2. w \in Record
      BY <1>1, <3>1
    <3>3. ~w.socket /\ w.connect = s.connect /\ ~w.wsa /\ w.started = n
      BY <1>1, <3>1
    <3> QED
      BY <1>1, <2>1, <3>2, <3>3
  <2>3. TcpShutdown(p, t) = w
    BY <1>3 DEF TcpShutdown, ShutdownWin
  <2> HIDE DEF w
  <2> QED
    BY <1>3, <2>2, <2>3 DEF GoodTcp, ConnectState
<1> QED
  BY <1>2, <1>3

\* What Tick may leave behind.
AfterTick(p, t, accepted) == {TcpTickOn(p, t, report) : report \in TcpReports(p, t, accepted)}

(***************************************************************************)
(* Tick gives a connection up or completes it, and only one that is being  *)
(* made.                                                                   *)
(***************************************************************************)
LEMMA TcpTickGood ==
  ASSUME NEW p \in {"Mac", "Win"}, NEW t, GoodTcp(p, t), NEW accepted,
         NEW u \in AfterTick(p, t, accepted)
  PROVE  /\ GoodTcp(p, u)
         /\ t.connect # "IN_PROGRESS" => u = t
         /\ u.connect # "CONNECTED" => u = t \/ ~u.socket
<1>1. CASE ~t.socket \/ t.connect # "IN_PROGRESS"
  BY <1>1 DEF AfterTick, TcpReports, TcpTickOn, TickMac, TickWin, GoodTcp
<1>2. CASE t.socket /\ t.connect = "IN_PROGRESS"
  <2>1. u \in {t, TcpShutdown(p, t), [t EXCEPT !.connect = "CONNECTED"]}
    BY <1>2 DEF AfterTick, TcpTickOn, TickMac, TickWin, TcpShutdown
  <2>2. GoodTcp(p, [t EXCEPT !.connect = "CONNECTED"])
    BY <1>2 DEF GoodTcp, ConnectState
  <2>3. [t EXCEPT !.connect = "CONNECTED"].connect = "CONNECTED"
    BY DEF GoodTcp
  <2> QED
    BY <1>2, <2>1, <2>2, <2>3, TcpShutdownGood
<1> QED
  BY <1>1, <1>2

(***************************************************************************)
(* Recv and Send keep the socket, and may break a connection.              *)
(***************************************************************************)
LEMMA TcpBrokenGood ==
  ASSUME NEW p \in {"Mac", "Win"}, NEW t, GoodTcp(p, t), t.socket
  PROVE  GoodTcp(p, Broken(t)) /\ Broken(t).socket /\ Broken(t).connect = "NOT_CONNECTED"
BY DEF GoodTcp, Broken, ConnectState

\* recv and send report what they received or sent, or break the connection.
LEMMA TransferGood ==
  ASSUME NEW p \in {"Mac", "Win"}, NEW t, GoodTcp(p, t), t.socket, t.connect # "IN_PROGRESS"
  PROVE  /\ \A n : \A r \in TcpRecv(t, n) :
              GoodTcp(p, r.tcp) /\ r.tcp.socket /\ r.tcp.connect # "IN_PROGRESS"
         /\ \A s \in TcpSend(t) :
              GoodTcp(p, s.tcp) /\ s.tcp.socket /\ s.tcp.connect # "IN_PROGRESS"
BY TcpBrokenGood DEF TcpRecv, TcpSend

----------------------------------------------------------------------------
(* The mirror. *)

(***************************************************************************)
(* A mirror that holds nothing.  That the status is a record is what keeps *)
(* ClearDirty from changing its value.                                     *)
(***************************************************************************)
Blank(d) ==
  /\ DOMAIN d = {"status", "lists", "cueMap"}
  /\ DOMAIN d.status = {"value", "dirty"}
  /\ d.status.value = "UNINITIALIZED"
  /\ d.lists = NoLists

(***************************************************************************)
(* A mirror is blank when it is made and when it is cleared, whatever it   *)
(* was before; looking at the dirty flag leaves it so.                     *)
(***************************************************************************)
LEMMA BlankFacts ==
  /\ Blank(NewData)
  /\ \A d : Blank(ClearData(d))
  /\ \A d : Blank(d) => Blank(ClearDirtyData(d))
<1>1. Blank(NewData)
  BY DEF Blank, NewData, NewStatus
<1>2. \A d : Blank(ClearData(d))
  BY DEF Blank, ClearData, SetValue
<1>3. ASSUME NEW d, Blank(d) PROVE Blank(ClearDirtyData(d))
  <2> DEFINE c == [status |-> ClearDirty(d.status),
                   lists  |-> [k \in DOMAIN d.lists |-> ClearDirtyList(d.lists[k])],
                   cueMap |-> d.cueMap]
  <2>1. [k \in DOMAIN d.lists |-> ClearDirtyList(d.lists[k])] = NoLists
    BY <1>3 DEF Blank, NoLists
  <2>2. DOMAIN c = {"status", "lists", "cueMap"} /\ c.status = ClearDirty(d.status) /\ c.lists = NoLists
    BY <2>1
  <2>3. DOMAIN ClearDirty(d.status) = {"value", "dirty"} /\ ClearDirty(d.status).value = "UNINITIALIZED"
    BY <1>3 DEF Blank, ClearDirty
  <2>4. Blank(c)
    BY <2>2, <2>3 DEF Blank
  <2> QED
    BY <1>3, <2>4 DEF ClearDirtyData
<1> QED
  BY <1>1, <1>2, <1>3

----------------------------------------------------------------------------
(* The session. *)

Connectionless == connect = "IN_PROGRESS" \/ ~socket

(***************************************************************************)
(* The inductive invariant.  Without the first part a Tick could find a    *)
(* connection in progress that has no socket, and start the mirror.        *)
(***************************************************************************)
SessionInv ==
  /\ platform \in {"Mac", "Win"}
  /\ GoodTcp(platform, tcp)
  /\ Connectionless => Blank(data)

(***************************************************************************)
(* The variables take on what a method has made of the connection.         *)
(***************************************************************************)
LEMMA BecomesGoodTcp ==
  ASSUME NEW t, GoodTcp(platform, t), TcpBecomes(t), platform' = platform
  PROVE  GoodTcp(platform', tcp') /\ connect' = t.connect /\ socket' = t.socket
BY DEF GoodTcp, TcpBecomes, tcp

(***************************************************************************)
(* Initialize.                                                             *)
(***************************************************************************)
LEMMA InitializeKeepsInv ==
  ASSUME SessionInv, NEW withTypes \in BOOLEAN, InitializeLib(withTypes)
  PROVE  SessionInv'
<1>1. PICK t \in TcpInitialize(platform, tcp, InitialConnect) : TcpBecomes(t)
  BY DEF InitializeLib
<1>2. platform' = platform /\ data' \in {data, ClearData(data)}
  BY DEF InitializeLib, Becomes
<1>3. GoodTcp(platform, t) /\ (socket => t = tcp)
  <2>1. InitialConnect \in SUBSET {"IN_PROGRESS", "CONNECTED"} /\ tcp.socket = socket
    BY ConnectAssumption DEF tcp
  <2> QED
    BY <1>1, <2>1, TcpInitializeGood DEF SessionInv
<1>4. GoodTcp(platform', tcp') /\ connect' = t.connect /\ socket' = t.socket
  BY <1>1, <1>2, <1>3, BecomesGoodTcp
<1>5. Connectionless' => Connectionless
  BY <1>3, <1>4 DEF Connectionless, tcp
<1>6. Connectionless' => Blank(data')
  BY <1>2, <1>5, BlankFacts DEF SessionInv
<1> QED
  BY <1>2, <1>4, <1>6 DEF SessionInv

(***************************************************************************)
(* Shutdown.                                                               *)
(***************************************************************************)
LEMMA ShutdownKeepsInv ==
  ASSUME SessionInv, ShutdownLib
  PROVE  SessionInv'
<1>1. TcpBecomes(TcpShutdown(platform, tcp)) /\ platform' = platform /\ data' = ClearData(data)
  BY DEF ShutdownLib, Becomes
<1>2. GoodTcp(platform, TcpShutdown(platform, tcp))
  BY TcpShutdownGood DEF SessionInv
<1> QED
  BY <1>1, <1>2, BecomesGoodTcp, BlankFacts DEF SessionInv

(***************************************************************************)
(* The two ways a Tick goes on, whether or not the console has accepted    *)
(* the connection.                                                         *)
(***************************************************************************)
LEMMA TickSome ==
  ASSUME SessionTick
  PROVE  \E accepted : \E t \in AfterTick(platform, tcp, accepted) :
           IF t.connect = "CONNECTED" THEN TickOnline(t) ELSE TickOffline(t)
<1> DEFINE accepted == peer \in {"open", "closed"}
<1>1. \E t \in AfterTick(platform, tcp, accepted) :
        IF t.connect = "CONNECTED" THEN TickOnline(t) ELSE TickOffline(t)
  BY DEF SessionTick, TickReporting, Reports, AfterTick
<1> HIDE DEF accepted
<1> QED
  BY <1>1

(***************************************************************************)
(* Tick: the mirror works only on a connection that is made, and leaves it *)
(* made or broken, never in progress.                                      *)
(***************************************************************************)
LEMMA TickKeepsInv ==
  ASSUME SessionInv, SessionTick
  PROVE  SessionInv'
<1>1. PICK accepted : \E t \in AfterTick(platform, tcp, accepted) :
        IF t.connect = "CONNECTED" THEN TickOnline(t) ELSE TickOffline(t)
  BY TickSome
<1>2. PICK t \in AfterTick(platform, tcp, accepted) :
        IF t.connect = "CONNECTED" THEN TickOnline(t) ELSE TickOffline(t)
  BY <1>1
<1>3. /\ GoodTcp(platform, t)
      /\ tcp.connect # "IN_PROGRESS" => t = tcp
      /\ t.connect # "CONNECTED" => t = tcp \/ ~t.socket
  BY <1>2, TcpTickGood DEF SessionInv
<1>4. CASE t.connect = "CONNECTED"
  <2>1. PICK subscription : TickSubscribing(t, subscription)
    BY <1>2, <1>4 DEF TickOnline
  <2> DEFINE run(r)   == DataTick(data, IF torn THEN <<>> ELSE SubSeq(toClient, 1, r.received))
             queue(r) == sendQ \o subscription \o run(r).sent
             Sends(r) == IF queue(r) = <<>> THEN {[tcp |-> r.tcp, sent |-> FALSE]} ELSE TcpSend(r.tcp)
  <2>2. PICK r \in TcpRecv(t, Len(toClient)) :
          \E s \in Sends(r) : TcpBecomes(s.tcp) /\ platform' = platform
    BY <2>1 DEF TickSubscribing
  <2>3. PICK s \in TcpSend(r.tcp) \cup {[tcp |-> r.tcp, sent |-> FALSE]} :
          TcpBecomes(s.tcp) /\ platform' = platform
    BY <2>2
  <2>4. GoodTcp(platform, r.tcp) /\ r.tcp.socket /\ r.tcp.connect # "IN_PROGRESS"
    <3>1. t.socket /\ t.connect # "IN_PROGRESS"
      BY <1>3, <1>4 DEF GoodTcp
    <3> QED
      BY <1>3, <2>2, <3>1, TransferGood DEF SessionInv
  <2>5. GoodTcp(platform, s.tcp) /\ s.tcp.socket /\ s.tcp.connect # "IN_PROGRESS"
    BY <2>3, <2>4, TransferGood DEF SessionInv
  <2>6. GoodTcp(platform', tcp') /\ ~Connectionless'
    BY <2>3, <2>5, BecomesGoodTcp DEF Connectionless
  <2> QED
    BY <2>3, <2>6 DEF SessionInv
<1>5. CASE t.connect # "CONNECTED"
  <2>1. TcpBecomes(t) /\ platform' = platform /\ data' = data
    BY <1>2, <1>5 DEF TickOffline
  <2>2. GoodTcp(platform', tcp') /\ connect' = t.connect /\ socket' = t.socket
    BY <1>3, <2>1, BecomesGoodTcp
  <2>3. Connectionless' => Connectionless
    BY <1>3, <1>5, <2>2 DEF Connectionless, tcp
  <2> QED
    BY <2>1, <2>2, <2>3 DEF SessionInv
<1> QED
  BY <1>4, <1>5

(***************************************************************************)
(* The other actions leave the connection alone, and what they do to the   *)
(* mirror leaves a blank one blank.                                        *)
(***************************************************************************)
LEMMA SameConnection ==
  ASSUME SessionInv, UNCHANGED <<platform, socket, connect, wsa, started>>,
         data' \in {data, ClearDirtyData(data)}
  PROVE  SessionInv'
<1>1. tcp' = tcp /\ (Connectionless' <=> Connectionless)
  BY DEF tcp, Connectionless
<1> QED
  BY <1>1, BlankFacts DEF SessionInv

\* The console's changes are not the library's.
LEMMA ChangeKeepsClient == Change => UNCHANGED clientVars
BY DEF Change, EditTarget, SwapTargets, EditList, EditCueList, LoadShow, ChangeShow

(***************************************************************************)
(* The invariant holds for every show, console and application.            *)
(***************************************************************************)
THEOREM SessionInvariance == SessionSpec => []SessionInv
<1>1. SessionInit => SessionInv
  <2> SUFFICES ASSUME SessionInit PROVE SessionInv
    OBVIOUS
  <2>1. platform \in {"Mac", "Win"} /\ data = NewData
    BY PlatformsAssumption DEF SessionInit, InitApart
  <2>2. GoodTcp(platform, tcp)
    <3>1. connect \in ConnectState /\ connect = "NOT_CONNECTED"
      BY DEF SessionInit, ConnectState
    <3>2. socket \in BOOLEAN /\ wsa \in BOOLEAN /\ ~socket /\ ~wsa
      BY Zenon DEF SessionInit
    <3>3. started \in Int /\ started = 0
      BY DEF SessionInit
    <3> QED
      BY <3>1, <3>2, <3>3 DEF GoodTcp, tcp
  <2> QED
    BY <2>1, <2>2, BlankFacts DEF SessionInv
<1>2. SessionInv /\ [SessionNext]_sessionVars => SessionInv'
  <2> SUFFICES ASSUME SessionInv, [SessionNext]_sessionVars PROVE SessionInv'
    OBVIOUS
  <2>1. ASSUME NEW withTypes \in BOOLEAN, InitializeLib(withTypes) PROVE SessionInv'
    BY <2>1, InitializeKeepsInv
  <2>2. CASE ShutdownLib
    BY <2>2, ShutdownKeepsInv
  <2>3. CASE SessionTick
    BY <2>3, TickKeepsInv
  <2>4. CASE ClearDirtyFlag /\ Elsewhere
    BY <2>4, SameConnection DEF ClearDirtyFlag, Elsewhere, Aside
  <2>5. CASE ConsoleCloses
    BY <2>5, SameConnection DEF ConsoleCloses, clientVars, Aside
  <2>6. CASE ChangeUnheard
    BY <2>6, SameConnection DEF ChangeUnheard, clientVars, Aside
  <2>7. CASE Answer /\ Elsewhere
    BY <2>7, SameConnection DEF Answer, Elsewhere, clientVars, Aside
  <2>8. CASE Change /\ Elsewhere
    BY <2>8, SameConnection, ChangeKeepsClient DEF Elsewhere, clientVars, Aside
  <2>9. CASE UNCHANGED sessionVars
    BY <2>9, SameConnection DEF sessionVars, vars, clientVars
  <2> QED
    BY <2>1, <2>2, <2>3, <2>4, <2>5, <2>6, <2>7, <2>8, <2>9 DEF SessionNext
<1> QED
  BY <1>1, <1>2, PTL DEF SessionSpec

(***************************************************************************)
(* Winsock is started and cleaned up in pairs, whatever fails in between   *)
(* (EosTcp_Win::Initialize and Shutdown).                                  *)
(***************************************************************************)
THEOREM WinsockCorrect == SessionSpec => []WinsockPaired
<1>1. SessionInv => WinsockPaired
  BY DEF SessionInv, GoodTcp, tcp, WinsockPaired
<1> QED
  BY <1>1, SessionInvariance, PTL

(***************************************************************************)
(* While a connection is being made, and while there is none, the mirror   *)
(* holds nothing of an earlier one (EosSyncLib::Shutdown and Initialize).  *)
(***************************************************************************)
THEOREM NothingCarried == SessionSpec => []NothingCarriedOver
<1>1. SessionInv => NothingCarriedOver
  BY DEF SessionInv, Connectionless, Blank, NothingCarriedOver
<1> QED
  BY <1>1, SessionInvariance, PTL

(***************************************************************************)
(* A broken connection stays broken until Shutdown, for Initialize does    *)
(* nothing to an object that has a socket.                                 *)
(***************************************************************************)
THEOREM BrokenStays == SessionSpec => BrokenUntilShutdown
<1> DEFINE Stays == socket /\ connect = "NOT_CONNECTED" => connect' = "NOT_CONNECTED"
<1>1. SessionInv /\ [SessionNext]_sessionVars => Stays
  <2> SUFFICES ASSUME SessionInv, [SessionNext]_sessionVars, socket, connect = "NOT_CONNECTED"
               PROVE  connect' = "NOT_CONNECTED"
    OBVIOUS
  <2>1. tcp.socket /\ tcp.connect = "NOT_CONNECTED"
    BY DEF tcp
  <2>2. ASSUME NEW withTypes \in BOOLEAN, InitializeLib(withTypes) PROVE connect' = "NOT_CONNECTED"
    <3>1. PICK t \in TcpInitialize(platform, tcp, InitialConnect) : TcpBecomes(t)
      BY <2>2 DEF InitializeLib
    <3>2. t = tcp
      BY <2>1, <3>1 DEF TcpInitialize, InitializeMac, InitializeWin
    <3> QED
      BY <2>1, <3>1, <3>2 DEF TcpBecomes
  <2>3. CASE ShutdownLib
    <3>1. TcpBecomes(TcpShutdown(platform, tcp))
      BY <2>3 DEF ShutdownLib
    <3>2. TcpShutdown(platform, tcp).connect = "NOT_CONNECTED"
      BY TcpShutdownGood DEF SessionInv, GoodTcp
    <3> QED
      BY <3>1, <3>2 DEF TcpBecomes
  <2>4. CASE SessionTick
    <3>1. PICK accepted : \E t \in AfterTick(platform, tcp, accepted) :
            IF t.connect = "CONNECTED" THEN TickOnline(t) ELSE TickOffline(t)
      BY <2>4, TickSome
    <3>2. PICK t \in AfterTick(platform, tcp, accepted) :
            IF t.connect = "CONNECTED" THEN TickOnline(t) ELSE TickOffline(t)
      BY <3>1
    <3>3. t = tcp
      BY <2>1, <3>2, TcpTickGood DEF SessionInv
    <3>4. TcpBecomes(t)
      BY <2>1, <3>2, <3>3 DEF TickOffline
    <3> QED
      BY <2>1, <3>3, <3>4 DEF TcpBecomes
  <2>5. CASE ClearDirtyFlag /\ Elsewhere
    BY <2>5 DEF ClearDirtyFlag
  <2>6. CASE ConsoleCloses \/ ChangeUnheard \/ (Answer /\ Elsewhere)
    BY <2>6 DEF ConsoleCloses, ChangeUnheard, Answer, clientVars
  <2>7. CASE Change /\ Elsewhere
    BY <2>7, ChangeKeepsClient DEF clientVars
  <2>8. CASE UNCHANGED sessionVars
    BY <2>8 DEF sessionVars, vars, clientVars
  <2> QED
    BY <2>2, <2>3, <2>4, <2>5, <2>6, <2>7, <2>8 DEF SessionNext
<1>2. SessionSpec => [][SessionNext]_sessionVars
  BY DEF SessionSpec
<1> QED
  BY <1>1, <1>2, SessionInvariance, PTL DEF BrokenUntilShutdown

----------------------------------------------------------------------------
(* The mirror on a connection that may fail. *)

(***************************************************************************)
(* The packets on their way are as in EosSync; what the mirror waits for   *)
(* is among them while the connection holds and its end is the console's.  *)
(***************************************************************************)
MirrorInv ==
  /\ PacketsOK /\ GoodData(data) /\ ResyncIsDirty
  /\ connect = "CONNECTED" /\ peer = "open" /\ ~torn => AllAwaited

(***************************************************************************)
(* A blank mirror waits for nothing.                                       *)
(***************************************************************************)
LEMMA BlankAwaits ==
  ASSUME NEW d, Blank(d), NEW requests, NEW replies PROVE Awaits(d, requests, replies)
BY DEF Blank, NoLists, Awaits

(***************************************************************************)
(* Initialize finds a mirror that is blank, or a connection.               *)
(***************************************************************************)
LEMMA InitializeKeepsMirror ==
  ASSUME SessionInv, MirrorInv, NEW withTypes \in BOOLEAN, InitializeLib(withTypes)
  PROVE  MirrorInv'
<1>1. PICK t \in TcpInitialize(platform, tcp, InitialConnect) :
        /\ TcpBecomes(t)
        /\ IF t.socket /\ ~socket
           THEN peer' \in IF t.connect = "CONNECTED" THEN {"open"} ELSE {"open", "absent"}
           ELSE peer' = peer
  BY Zenon DEF InitializeLib
<1>2. PICK d : Becomes(d) /\ d \in {data, ClearData(data)}
  BY DEF InitializeLib
<1>3. UNCHANGED <<sendQ, toConsole, toClient, show, subscribed, edits, torn>> /\ data' = d
  BY <1>2 DEF InitializeLib, consoleVars, Becomes
<1>4. data.status \in SyncStatus
  BY DEF MirrorInv, GoodData, DataType
<1>5. GoodData(d) /\ (d = ClearData(data) => DOMAIN d.lists = {} /\ d.status.value = "UNINITIALIZED")
  <2>1. GoodData(ClearData(data)) /\ DOMAIN ClearData(data).lists = {}
    BY <1>4, ClearDataGood
  <2>2. ClearData(data).status.value = "UNINITIALIZED"
    BY BlankFacts DEF Blank
  <2> QED
    BY <1>2, <2>1, <2>2 DEF MirrorInv
<1>6. PacketsOK'
  BY <1>2, <1>3 DEF MirrorInv, PacketsOK, Becomes
<1>7. ResyncIsDirty'
  BY <1>2, <1>3, <1>5 DEF MirrorInv, PacketsOK, Becomes, ResyncIsDirty, IsSynchronized
<1>8. ASSUME connect' = "CONNECTED", peer' = "open", ~torn' PROVE AllAwaited'
  <2>1. CASE socket
    <3>1. InitialConnect \in SUBSET {"IN_PROGRESS", "CONNECTED"} /\ tcp.socket
      BY <2>1, ConnectAssumption DEF tcp
    <3>2. t = tcp
      BY <1>1, <3>1, TcpInitializeGood DEF SessionInv
    <3>3. connect = "CONNECTED" /\ peer = "open" /\ ~torn
      BY <1>1, <1>3, <1>8, <2>1, <3>2 DEF TcpBecomes, tcp
    <3>4. AllAwaited
      BY <3>3 DEF MirrorInv
    <3>5. CASE d = data
      BY <1>3, <3>4, <3>5 DEF AllAwaited, Requests
    <3>6. CASE d = ClearData(data)
      <4>1. Awaits(d, Requests', Range(toClient'))
        BY <1>4, <3>6, ClearDataGood
      <4> QED
        BY <1>3, <4>1 DEF AllAwaited
    <3> QED
      BY <1>2, <3>5, <3>6
  <2>2. CASE ~socket
    <3>1. Blank(data')
      BY <1>2, <1>3, <2>2, BlankFacts DEF SessionInv, Connectionless
    <3>2. Blank(d)
      BY <1>3, <3>1
    <3>3. Awaits(d, Requests', Range(toClient'))
      BY <3>2, BlankAwaits
    <3> QED
      BY <1>3, <3>3 DEF AllAwaited
  <2> QED
    BY <2>1, <2>2
<1> QED
  BY <1>3, <1>5, <1>6, <1>7, <1>8 DEF MirrorInv

(***************************************************************************)
(* Shutdown forgets the mirror and the packets on their way.               *)
(***************************************************************************)
LEMMA ShutdownKeepsMirror ==
  ASSUME SessionInv, MirrorInv, ShutdownLib
  PROVE  MirrorInv'
<1>1. /\ data' = ClearData(data) /\ toConsole' = <<>> /\ toClient' = <<>> /\ subscribed' = FALSE
      /\ UNCHANGED <<sendQ, show, edits>> /\ peer' = "none"
  BY DEF ShutdownLib, ConnectionGone, Becomes
<1>2. Becomes(ClearData(data))
  BY DEF ShutdownLib
<1>3. data.status \in SyncStatus
  BY DEF MirrorInv, GoodData, DataType
<1>4. GoodData(data') /\ data'.status.value = "UNINITIALIZED"
  BY <1>1, <1>3, ClearDataGood, BlankFacts DEF Blank
<1>5. PacketsOK'
  <2>1. <<>> \in Seq(Request) /\ <<>> \in Seq(Command)
    OBVIOUS
  <2> QED
    BY <1>1, <1>2, <2>1 DEF MirrorInv, PacketsOK, Becomes
<1> QED
  BY <1>1, <1>4, <1>5 DEF MirrorInv, ResyncIsDirty, IsSynchronized

(***************************************************************************)
(* Before a Tick on a connection all that is waited for is on its way: the *)
(* connection has held, or has just been made and the mirror is blank.     *)
(***************************************************************************)
LEMMA OnlineBefore ==
  ASSUME SessionInv, MirrorInv, NEW t, t.connect = "CONNECTED",
         tcp.connect # "IN_PROGRESS" => t = tcp, peer = "open", ~torn
  PROVE  AllAwaited
<1>1. CASE connect = "IN_PROGRESS"
  BY <1>1, BlankAwaits DEF SessionInv, Connectionless, AllAwaited
<1>2. CASE connect # "IN_PROGRESS"
  BY <1>2 DEF tcp, MirrorInv
<1> QED
  BY <1>1, <1>2

(***************************************************************************)
(* Tick on a connection t.  When it still holds at the end, the packet     *)
(* that left the queue was sent.                                           *)
(***************************************************************************)
LEMMA OnlineKeepsMirror ==
  ASSUME SessionInv, MirrorInv, NEW t, GoodTcp(platform, t), t.connect = "CONNECTED",
         tcp.connect # "IN_PROGRESS" => t = tcp, TickOnline(t)
  PROVE  MirrorInv'
<1>1. PICK more :
        /\ more = (IF connect # "CONNECTED" THEN <<Subscribe>> ELSE <<>>)
        /\ TickSubscribing(t, more)
  BY DEF TickOnline
<1>2. more \in Seq(Request)
  <2>1. Subscribe \in Request
    BY DEF Request
  <2>2. <<Subscribe>> \in Seq(Request) /\ <<>> \in Seq(Request)
    BY <2>1
  <2> QED
    BY <1>1, <2>2
<1>3. PICK r, s, cmds, run, q :
        /\ r \in TcpRecv(t, Len(toClient))
        /\ cmds = (IF torn THEN <<>> ELSE SubSeq(toClient, 1, r.received))
        /\ run = DataTick(data, cmds) /\ q = sendQ \o more \o run.sent
        /\ s \in IF q = <<>> THEN {[tcp |-> r.tcp, sent |-> FALSE]} ELSE TcpSend(r.tcp)
        /\ TcpBecomes(s.tcp) /\ Becomes(run.data)
        /\ toClient' = SubSeq(toClient, r.received + 1, Len(toClient))
        /\ sendQ' = (IF q = <<>> THEN q ELSE Tail(q))
        /\ toConsole' = (IF s.sent /\ peer = "open" THEN Append(toConsole, Head(q)) ELSE toConsole)
        /\ UNCHANGED <<show, subscribed, edits, peer, torn>>
  BY <1>1, ZenonT(40) DEF TickSubscribing, consoleVars
<1>4. PICK n : n = r.received /\ n \in 0..Len(toClient)
  <2>1. Len(toClient) \in Nat
    BY DEF MirrorInv, PacketsOK
  <2>2. r \in {[tcp |-> t, received |-> i] : i \in 0..Len(toClient)}
             \cup {[tcp |-> t, received |-> 0], [tcp |-> Broken(t), received |-> 0]}
    BY <1>3 DEF TcpRecv
  <2>3. 0 \in 0..Len(toClient)
    BY <2>1
  <2> QED
    BY <2>2, <2>3
<1>5. cmds \in {SubSeq(toClient, 1, n), <<>>} /\ (~torn => cmds = SubSeq(toClient, 1, n))
  BY <1>3, <1>4
<1>6. /\ GoodData(data') /\ unseen' \in BOOLEAN /\ toClient' \in Seq(Command)
      /\ q \in Seq(Request) /\ ResyncIsDirty'
      /\ AllAwaited /\ cmds = SubSeq(toClient, 1, n) =>
           Awaits(data', Range(q) \cup Range(toConsole), Range(toClient'))
  BY <1>2, <1>3, <1>4, <1>5, MirrorTicks DEF MirrorInv
<1>7. PICK w : w = toConsole /\ w \in Seq(Request)
  BY DEF MirrorInv, PacketsOK
<1>8. CASE q = <<>>
  <2>1. sendQ' = q /\ toConsole' = w
    <3>1. s = [tcp |-> r.tcp, sent |-> FALSE]
      BY <1>3, <1>8
    <3>2. ~s.sent
      BY <3>1
    <3> QED
      BY <1>3, <1>7, <1>8, <3>2
  <2>2. PacketsOK'
    BY <1>3, <1>6, <1>7, <2>1 DEF MirrorInv, PacketsOK
  <2>3. Requests' = Range(q) \cup Range(w)
    BY <2>1 DEF Requests
  <2>4. ~torn /\ AllAwaited => AllAwaited'
    BY <1>5, <1>6, <1>7, <2>3 DEF AllAwaited
  <2> QED
    BY <1>3, <1>6, <2>2, <2>4, OnlineBefore DEF MirrorInv
<1>9. CASE q # <<>>
  <2>1. PICK x, v : x = Tail(q) /\ v = Append(w, Head(q))
    OBVIOUS
  <2>2. x \in Seq(Request) /\ v \in Seq(Request) /\ Range(q) \cup Range(w) = Range(x) \cup Range(v)
    BY <1>6, <1>7, <1>9, <2>1, SendQueueFacts
  <2>3. sendQ' = x /\ toConsole' \in {w, v} /\ (s.sent /\ peer = "open" => toConsole' = v)
    BY <1>3, <1>7, <1>9, <2>1
  <2>4. PacketsOK'
    BY <1>3, <1>6, <1>7, <2>2, <2>3 DEF MirrorInv, PacketsOK
  <2>5. s.tcp.connect = "CONNECTED" => s.sent
    <3>1. GoodTcp(platform, r.tcp) /\ r.tcp.socket
      BY <1>3, TransferGood DEF SessionInv, GoodTcp
    <3>2. Broken(r.tcp).connect # "CONNECTED"
      BY <3>1, TcpBrokenGood DEF SessionInv
    <3> QED
      BY <1>3, <1>9, <3>1, <3>2 DEF TcpSend
  <2>6. s.sent /\ peer = "open" => Requests' = Range(q) \cup Range(w)
    BY <2>2, <2>3 DEF Requests
  <2>7. connect' = s.tcp.connect /\ peer' = peer /\ torn' = torn
    BY <1>3 DEF TcpBecomes
  <2>8. connect' = "CONNECTED" /\ peer' = "open" /\ ~torn' /\ AllAwaited => AllAwaited'
    BY <1>5, <1>6, <1>7, <2>5, <2>6, <2>7 DEF AllAwaited
  <2> QED
    BY <1>6, <2>4, <2>7, <2>8, OnlineBefore DEF MirrorInv
<1> QED
  BY <1>8, <1>9

(***************************************************************************)
(* Tick.                                                                   *)
(***************************************************************************)
LEMMA TickKeepsMirror ==
  ASSUME SessionInv, MirrorInv, SessionTick
  PROVE  MirrorInv'
<1>1. PICK accepted : \E t \in AfterTick(platform, tcp, accepted) :
        IF t.connect = "CONNECTED" THEN TickOnline(t) ELSE TickOffline(t)
  BY TickSome
<1>2. PICK t \in AfterTick(platform, tcp, accepted) :
        IF t.connect = "CONNECTED" THEN TickOnline(t) ELSE TickOffline(t)
  BY <1>1
<1>3. GoodTcp(platform, t) /\ (tcp.connect # "IN_PROGRESS" => t = tcp)
  BY <1>2, TcpTickGood DEF SessionInv
<1>4. CASE t.connect = "CONNECTED"
  BY <1>2, <1>3, <1>4, OnlineKeepsMirror
<1>5. CASE t.connect # "CONNECTED"
  <2>1. /\ connect' # "CONNECTED" /\ UNCHANGED <<data, sendQ, show, edits, unseen>>
        /\ \/ UNCHANGED <<toConsole, toClient, subscribed>>
           \/ toConsole' = <<>> /\ toClient' = <<>> /\ subscribed' = FALSE
    BY <1>2, <1>5 DEF TickOffline, TcpBecomes, ConnectionGone, ConnectionKept
  <2>2. <<>> \in Seq(Request) /\ <<>> \in Seq(Command)
    OBVIOUS
  <2>3. PacketsOK'
    BY <2>1, <2>2 DEF MirrorInv, PacketsOK
  <2> QED
    BY <2>1, <2>3 DEF MirrorInv, ResyncIsDirty, IsSynchronized
<1> QED
  BY <1>4, <1>5

(***************************************************************************)
(* What the library waits for, and when: while the connection holds, a     *)
(* request or a reply is on its way, also behind whatever an earlier       *)
(* connection has left in the queue.                                       *)
(***************************************************************************)
THEOREM MirrorInvariance == SessionSpec => []MirrorInv
<1>1. SessionInit => MirrorInv
  <2> SUFFICES ASSUME SessionInit PROVE MirrorInv
    OBVIOUS
  <2>1. /\ data = NewData /\ sendQ = <<>> /\ toConsole = <<>> /\ toClient = <<>>
        /\ show \in InitialShows /\ subscribed = FALSE /\ edits = 0 /\ unseen = FALSE
        /\ connect = "NOT_CONNECTED"
    BY DEF SessionInit, InitApart
  <2>2. <<>> \in Seq(Request) /\ <<>> \in Seq(Command)
    OBVIOUS
  <2>3. PacketsOK
    BY <2>1, <2>2, InitialShowsAssumption DEF PacketsOK
  <2>4. GoodData(data) /\ ResyncIsDirty
    BY <2>1, NewDataGood DEF ResyncIsDirty
  <2> QED
    BY <2>1, <2>3, <2>4 DEF MirrorInv
<1>2. SessionInv /\ MirrorInv /\ [SessionNext]_sessionVars => MirrorInv'
  <2> SUFFICES ASSUME SessionInv, MirrorInv, [SessionNext]_sessionVars PROVE MirrorInv'
    OBVIOUS
  <2>1. ASSUME NEW withTypes \in BOOLEAN, InitializeLib(withTypes) PROVE MirrorInv'
    BY <2>1, InitializeKeepsMirror
  <2>2. CASE ShutdownLib
    BY <2>2, ShutdownKeepsMirror
  <2>3. CASE SessionTick
    BY <2>3, TickKeepsMirror
  <2>4. CASE ClearDirtyFlag /\ Elsewhere
    <3>1. PacketsOK' /\ GoodData(data') /\ ResyncIsDirty' /\ (AllAwaited => AllAwaited')
      BY <2>4, ClearingKeeps DEF MirrorInv
    <3>2. UNCHANGED <<connect, peer, torn>>
      BY <2>4 DEF ClearDirtyFlag, Elsewhere, Aside
    <3> QED
      BY <3>1, <3>2 DEF MirrorInv
  <2>5. ASSUME PacketsOK', AllAwaited => AllAwaited', UNCHANGED <<clientVars, unseen>>,
               UNCHANGED <<peer, torn>>
        PROVE  MirrorInv'
    BY <2>5 DEF MirrorInv, clientVars, ResyncIsDirty, IsSynchronized
  <2>6. CASE Answer /\ Elsewhere
    BY <2>5, <2>6, AnswerKeeps DEF MirrorInv, Elsewhere, Aside
  <2>7. CASE Change /\ Elsewhere
    BY <2>5, <2>7, ChangeKeeps DEF MirrorInv, Elsewhere, Aside
  <2>8. CASE ConsoleCloses
    <3>1. /\ UNCHANGED <<connect, data, sendQ, toClient, show, edits, unseen>>
          /\ peer' = "closed" /\ toConsole' = <<>> /\ subscribed' = FALSE
      BY <2>8 DEF ConsoleCloses, clientVars
    <3>2. <<>> \in Seq(Request)
      OBVIOUS
    <3>3. PacketsOK'
      BY <3>1, <3>2 DEF MirrorInv, PacketsOK
    <3> QED
      BY <3>1, <3>3 DEF MirrorInv, ResyncIsDirty, IsSynchronized
  <2>9. CASE ChangeUnheard
    <3>1. /\ UNCHANGED <<connect, data, sendQ, toConsole, toClient, subscribed, unseen>>
          /\ show' \in Shows /\ edits' = edits + 1 /\ peer' = peer /\ peer # "open"
      BY <2>9 DEF ChangeUnheard, clientVars
    <3>2. PacketsOK'
      BY <3>1 DEF MirrorInv, PacketsOK
    <3> QED
      BY <3>1, <3>2 DEF MirrorInv, ResyncIsDirty, IsSynchronized
  <2>10. CASE UNCHANGED sessionVars
    <3>1. UNCHANGED <<connect, data, sendQ, toConsole, toClient, show, subscribed, edits, unseen,
                      peer, torn>>
      BY <2>10 DEF sessionVars, vars, clientVars, consoleVars
    <3>2. PacketsOK' /\ (AllAwaited => AllAwaited')
      BY <3>1 DEF MirrorInv, PacketsOK, AllAwaited, Requests
    <3> QED
      BY <2>5, <3>1, <3>2 DEF clientVars
  <2> QED
    BY <2>1, <2>2, <2>3, <2>4, <2>6, <2>7, <2>8, <2>9, <2>10 DEF SessionNext
<1> QED
  BY <1>1, <1>2, SessionInvariance, PTL DEF SessionSpec

(***************************************************************************)
(* Packets are lost only with their connection (EosTcp::Send and Recv give *)
(* it up when they fail), so that nothing the mirror waits for is lost     *)
(* while it holds.                                                         *)
(***************************************************************************)
THEOREM WaitsAreAnsweredOnline == SessionSpec => []WaitsAreAnsweredWhileUp
<1>1. AllAwaited => WaitsAreAnswered
  BY AwaitedIsAnswered
<1>2. MirrorInv => WaitsAreAnsweredWhileUp
  BY <1>1 DEF MirrorInv, WaitsAreAnsweredWhileUp
<1> QED
  BY <1>2, MirrorInvariance, PTL

(***************************************************************************)
(* What IsSynchronized vouches for, and what the dirty flag tells, also    *)
(* hold whatever fails: a mirror that was cut off in the middle never      *)
(* passes for a complete one.                                              *)
(***************************************************************************)
THEOREM SynchronizedAcrossSessions == SessionSpec => [](SynchronizedLists /\ ResyncIsDirty)
<1>1. MirrorInv => SynchronizedLists /\ ResyncIsDirty
  BY GoodDataIsSynchronized DEF MirrorInv
<1> QED
  BY <1>1, MirrorInvariance, PTL
=============================================================================
