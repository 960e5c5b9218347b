------------------------------- MODULE EosTcp -------------------------------
(***************************************************************************)
(* One TCP connection of a client (EosTcp_Mac, EosTcp_Win): its socket and *)
(* its state.  Like EosTargetList this module holds the methods as         *)
(* operators on a record:                                                  *)
(*                                                                         *)
(*   socket   m_Socket is a socket                                         *)
(*   connect  m_ConnectState                                               *)
(*   wsa      m_WSAStartup: this object has started Winsock                *)
(*   started  how often this process has started Winsock and not cleaned up*)
(*                                                                         *)
(* What the operating system answers is not determined, so a method is the *)
(* set of the records it may leave behind; for Tick the answers have names.*)
(***************************************************************************)
EXTENDS Integers

ConnectState == {"NOT_CONNECTED", "IN_PROGRESS", "CONNECTED"}

Tcp == [socket : BOOLEAN, connect : ConnectState, wsa : BOOLEAN, started : Int]

NewTcp == [socket |-> FALSE, connect |-> "NOT_CONNECTED", wsa |-> FALSE, started |-> 0]

----------------------------------------------------------------------------
\* What becomes of a connection request: connect() may succeed at once.
ConnectMac(t, states) ==
  {[t EXCEPT !.socket = TRUE, !.connect = c] : c \in states}

\* Mutant of InitializeMac: connects again when the connection is broken.
InitializeMacAgain(t, states) ==
  IF t.connect # "NOT_CONNECTED" THEN {t} ELSE {t} \cup ConnectMac(t, states)

\* EosTcp_Mac::Initialize: does nothing to an object that has a socket.  No
\* socket, or a connect() that fails at once, leaves the object as it was.
InitializeMac(t, states) == IF t.socket THEN {t} ELSE {t} \cup ConnectMac(t, states)

\* EosTcp_Win::Initialize starts Winsock first, and cleans up when it fails later.
InitializeWin(t, states) ==
  IF t.socket THEN {t}
  ELSE {t} \cup {[s EXCEPT !.wsa = TRUE, !.started = t.started + 1] : s \in ConnectMac(t, states)}

ShutdownMac(t) == [t EXCEPT !.socket = FALSE, !.connect = "NOT_CONNECTED"]

\* Mutant of ShutdownWin: cleans up only behind a socket that is connected.
ShutdownWinConnected(t) ==
  [ShutdownMac(t) EXCEPT
     !.wsa = FALSE, !.started = IF t.wsa /\ t.connect = "CONNECTED" THEN t.started - 1 ELSE t.started]

ShutdownWin(t) ==
  [ShutdownMac(t) EXCEPT
     !.wsa = FALSE, !.started = IF t.wsa THEN t.started - 1 ELSE t.started]

(***************************************************************************)
(* What Tick may find when it asks for a connection in progress: nothing   *)
(* in the time select() waits, that select() fails, or that the socket is  *)
(* writable, which it is when the connection is made and when it has       *)
(* failed.  On macOS SO_ERROR tells these apart, unless getsockopt() fails.*)
(* On Windows Tick does not ask: Winsock reports a connection that was     *)
(* refused in the set of exceptions, which Tick does not look at.          *)
(***************************************************************************)
Made(accepted) == IF accepted THEN {"MADE"} ELSE {}

ReportsMac(accepted) == {"NOTHING", "SELECT_FAILED", "GETSOCKOPT_FAILED", "SO_ERROR"} \cup Made(accepted)

ReportsWin(accepted) == {"NOTHING", "SELECT_FAILED"} \cup Made(accepted)

\* Mutant of TickMac: forgets the connection when it cannot tell what became of it.
TickMacUntold(t, report) ==
  CASE report = "MADE"     -> [t EXCEPT !.connect = "CONNECTED"]
    [] report = "SO_ERROR" -> ShutdownMac(t)
    [] OTHER               -> t

\* EosTcp_Mac::Tick.
TickMac(t, report) ==
  CASE report = "MADE"                                                -> [t EXCEPT !.connect = "CONNECTED"]
    [] report \in {"SELECT_FAILED", "GETSOCKOPT_FAILED", "SO_ERROR"} -> ShutdownMac(t)
    [] OTHER                                                         -> t

\* EosTcp_Win::Tick.
TickWin(t, report) ==
  CASE report = "MADE"          -> [t EXCEPT !.connect = "CONNECTED"]
    [] report = "SELECT_FAILED" -> ShutdownWin(t)
    [] OTHER                    -> t

\* Send or Recv has failed.  The socket is kept.
Broken(t) == [t EXCEPT !.connect = "NOT_CONNECTED"]

\* Mutant of TcpSend: reports a failure and forgets to note it.
TcpSendUnnoticed(t) ==
  IF t.socket /\ t.connect = "CONNECTED"
  THEN {[tcp |-> t, sent |-> TRUE], [tcp |-> t, sent |-> FALSE]}
  ELSE {[tcp |-> t, sent |-> FALSE]}

\* Send: all of the data, or none or a part of it and the connection is given up.
TcpSend(t) ==
  IF t.socket /\ t.connect = "CONNECTED"
  THEN {[tcp |-> t, sent |-> TRUE], [tcp |-> Broken(t), sent |-> FALSE]}
  ELSE {[tcp |-> t, sent |-> FALSE]}

\* Recv of up to n packets.  A recv() that returns 0, as it does for ever when the
\* other end has closed the connection, counts as nothing received.
TcpRecv(t, n) ==
  IF t.socket /\ t.connect = "CONNECTED"
  THEN {[tcp |-> t, received |-> i] : i \in 0..n} \cup {[tcp |-> Broken(t), received |-> 0]}
  ELSE {[tcp |-> t, received |-> 0]}

----------------------------------------------------------------------------
(* The platform decides which class EosTcp::Create makes. *)

TcpInitialize(platform, t, states) ==
  IF platform = "Win" THEN InitializeWin(t, states) ELSE InitializeMac(t, states)

TcpShutdown(platform, t) == IF platform = "Win" THEN ShutdownWin(t) ELSE ShutdownMac(t)

\* Tick asks only about a connection in progress.
TcpReports(platform, t, accepted) ==
  IF ~t.socket \/ t.connect # "IN_PROGRESS" THEN {"NOTHING"}
  ELSE IF platform = "Win" THEN ReportsWin(accepted) ELSE ReportsMac(accepted)

TcpTickOn(platform, t, report) ==
  IF platform = "Win" THEN TickWin(t, report) ELSE TickMac(t, report)
=============================================================================
