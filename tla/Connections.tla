---------------------------- MODULE Connections ----------------------------
(***************************************************************************)
(* A P2P connection of the workload (fuzzamoto/src/connections.rs) and the *)
(* node at its other end.                                                  *)
(*                                                                         *)
(* Every method of Connection is of one form: perhaps receive until some   *)
(* message arrives, write messages, perhaps receive until some message     *)
(* arrives.  The messages still to be written are `out`, what is waited for*)
(* is `await`.  The sockets have limited buffers and time limits for reads *)
(* and writes.  Nothing is read between two calls.                         *)
(*                                                                         *)
(* External: the node.  It takes one message at a time, in order, unless it*)
(* has too much unsent; it answers pings; it may stall, chat, disconnect.  *)
(***************************************************************************)
EXTENDS Naturals, Sequences

CONSTANTS
  ConnectionType,   \* which of "Inbound", "Outbound"
  Capacity,         \* bound: messages buffered in each direction
  MaxSends,         \* bound: messages a caller sends
  MaxPings,         \* bound: pings a caller makes
  MaxStalls,        \* bound: the node stalls or disconnects
  MaxChat           \* bound: messages the node sends on its own

ASSUME ConnectionsAssumption ==
  /\ ConnectionType \subseteq {"Inbound", "Outbound"}
  /\ {Capacity, MaxSends, MaxPings, MaxStalls, MaxChat} \subseteq Nat

VARIABLES
  conn,      \* the struct, the method under way, what the last one returned
  to_node,   \* messages on their way to the node
  to_us,     \* messages on their way to the workload
  node

connection_vars == <<conn, to_node, to_us, node>>

Msg(command, n) == [command |-> command, n |-> n]

\* Something the workload only skips.
Chat == Msg("inv", 0)

Nothing == << >>

None == [method |-> "none", outcome |-> "none"]

ConnectionsInit ==
  /\ conn \in [connection_type : ConnectionType, ping_counter : {0},
               method : {"none"}, first : {Nothing}, out : {Nothing},
               last : {Nothing}, returned : {None}, sends : {0}, sent : {{}}]
  /\ to_node = << >> /\ to_us = << >>
  /\ node = [greeted |-> FALSE, processed |-> {}, stalled |-> FALSE,
             gone |-> FALSE, faults |-> 0, chat |-> 0]

-----------------------------------------------------------------------------
\* The methods.  In each, `first` is received, `out` written, `last` received.

Idle == conn.method = "none"

\* Has the handshake succeeded?  A connection whose handshake fails is dropped.
Open == conn.returned # None
          /\ conn.returned # [method |-> "version_handshake", outcome |-> "error"]

Begin(method, first, out, last) ==
  [conn EXCEPT !.method = method, !.first = first, !.out = out, !.last = last]

Hello == << Msg("version", 0), Msg("wtxidrelay", 0), Msg("sendaddrv2", 0),
            Msg("verack", 0) >>

\* Mutant of handshake_waits_for: an inbound peer is expected to begin, too.
handshake_waits_for_both == << Msg("version", 0) >>

\* The side that opened the connection begins: on an outbound one the node.
handshake_waits_for ==
  IF conn.connection_type = "Outbound" THEN << Msg("version", 0) >> ELSE Nothing

version_handshake ==
  /\ Idle /\ conn.returned = None
  /\ conn' = Begin("version_handshake", handshake_waits_for, Hello,
                   << Msg("verack", 0) >>)
  /\ UNCHANGED <<to_node, to_us, node>>

Message == Msg("message", conn.sends + 1)

send ==
  /\ Idle /\ Open /\ conn.sends < MaxSends
  /\ conn' = [Begin("send", Nothing, << Message >>, Nothing) EXCEPT !.sends = @ + 1]
  /\ UNCHANGED <<to_node, to_us, node>>

\* Every ping has a nonce of its own.
Nonce == conn.ping_counter + 1

ping ==
  /\ Idle /\ Open /\ conn.ping_counter < MaxPings
  /\ conn' = [Begin("ping", Nothing, << Msg("ping", Nonce) >>, << Msg("pong", Nonce) >>)
                EXCEPT !.ping_counter = @ + 1]
  /\ UNCHANGED <<to_node, to_us, node>>

send_and_recv ==
  /\ Idle /\ Open /\ conn.sends < MaxSends /\ conn.ping_counter < MaxPings
  /\ conn' = [Begin("send_and_recv", Nothing,
                    << Message, Msg("ping", 0), Msg("ping", Nonce) >>,
                    << Msg("pong", Nonce) >>)
                EXCEPT !.sends = @ + 1, !.ping_counter = @ + 1]
  /\ UNCHANGED <<to_node, to_us, node>>

Return(outcome) ==
  conn' = [conn EXCEPT !.method = "none", !.first = Nothing, !.out = Nothing,
                       !.last = Nothing,
                       !.returned = [method |-> conn.method, outcome |-> outcome]]

-----------------------------------------------------------------------------
\* Reading and writing.

\* What the method waits for at the moment, or Nothing.
Awaited ==
  IF conn.first # Nothing THEN conn.first
  ELSE IF conn.out = Nothing THEN conn.last ELSE Nothing

\* Mutant of IsAwaited: any pong is the one.
IsAwaited_command(m) == m.command = Awaited[1].command

\* wait_for_pong compares the nonce, too.
IsAwaited(m) == m = Awaited[1]

Receive ==
  /\ Awaited # Nothing /\ to_us # << >>
  /\ to_us' = Tail(to_us)
  /\ conn' = IF ~ IsAwaited(Head(to_us)) THEN conn
             ELSE IF conn.first # Nothing THEN [conn EXCEPT !.first = Nothing]
             ELSE [conn EXCEPT !.last = Nothing]
  /\ UNCHANGED <<to_node, node>>

Writing == conn.first = Nothing /\ conn.out # Nothing

Write ==
  /\ Writing /\ Len(to_node) < Capacity /\ ~ node.gone
  /\ to_node' = Append(to_node, Head(conn.out))
  /\ conn' = [conn EXCEPT !.out = Tail(@),
                !.sent = IF Head(conn.out).command = "message"
                         THEN @ \cup {Head(conn.out).n} ELSE @]
  /\ UNCHANGED <<to_us, node>>

Finish ==
  /\ ~ Idle /\ Awaited = Nothing /\ ~ Writing
  /\ Return("ok")
  /\ UNCHANGED <<to_node, to_us, node>>

\* Can the node still do something that gets a waiting peer on?
NodeBlocked == node.stalled \/ Len(to_us) >= Capacity

NodeSilent ==
  \/ node.stalled
  \/ to_node = << >> /\ (node.greeted \/ conn.connection_type = "Inbound")

\* Mutant of ReadTimeout: the socket has no read timeout.
ReadTimeout_never == FALSE /\ UNCHANGED connection_vars

\* Thirty seconds without a message, or the end of the stream.
ReadTimeout ==
  /\ Awaited # Nothing /\ to_us = << >>
  /\ NodeSilent \/ node.gone
  /\ Return("error")
  /\ UNCHANGED <<to_node, to_us, node>>

\* Thirty seconds with full buffers: nothing of the message has been written,
\* or a part of it, and then whatever follows is not a message any more.
WriteTimeout ==
  /\ Writing /\ Len(to_node) >= Capacity /\ NodeBlocked /\ ~ node.gone
  /\ \/ to_node' = to_node
     \/ to_node' = Append(to_node, Msg("torn", 0))
  /\ Return("error")
  /\ UNCHANGED <<to_us, node>>

\* The node has closed the connection: a write fails, at the latest when the
\* first one has been answered by a reset.
WriteFails ==
  /\ Writing /\ node.gone
  /\ \/ Return("error")
     \/ conn' = [conn EXCEPT !.out = Tail(@)]
  /\ UNCHANGED <<to_node, to_us, node>>

-----------------------------------------------------------------------------
\* The node.

\* It begins on the connections it opens.
Greet ==
  /\ conn.connection_type = "Outbound" /\ ~ node.greeted
  /\ ~ node.stalled /\ ~ node.gone
  /\ to_us' = Append(to_us, Msg("version", 0))
  /\ node' = [node EXCEPT !.greeted = TRUE]
  /\ UNCHANGED <<conn, to_node>>

\* What the node sends back.
Reply(m) ==
  CASE m.command = "version" ->
         (IF node.greeted THEN << >> ELSE << Msg("version", 0) >>) \o Tail(Hello)
    [] m.command = "ping" -> << Msg("pong", m.n) >>
    [] OTHER -> << >>

Process ==
  /\ to_node # << >> /\ ~ NodeBlocked /\ ~ node.gone
  /\ LET m == Head(to_node) IN
     /\ to_node' = Tail(to_node)
     /\ to_us' = to_us \o Reply(m)
     /\ node' = [node EXCEPT
          !.greeted = @ \/ m.command = "version",
          !.gone = m.command = "torn",
          !.processed = IF m.command = "message" THEN @ \cup {m.n} ELSE @]
  /\ UNCHANGED conn

SendChat ==
  /\ node.chat < MaxChat /\ node.greeted /\ ~ NodeBlocked /\ ~ node.gone
  /\ to_us' = Append(to_us, Chat)
  /\ node' = [node EXCEPT !.chat = @ + 1]
  /\ UNCHANGED <<conn, to_node>>

Stall ==
  /\ node.faults < MaxStalls /\ ~ node.stalled /\ ~ node.gone
  /\ node' = [node EXCEPT !.stalled = TRUE, !.faults = @ + 1]
  /\ UNCHANGED <<conn, to_node, to_us>>

Resume ==
  /\ node.stalled
  /\ node' = [node EXCEPT !.stalled = FALSE]
  /\ UNCHANGED <<conn, to_node, to_us>>

Disconnect ==
  /\ node.faults < MaxStalls /\ ~ node.gone
  /\ node' = [node EXCEPT !.gone = TRUE, !.stalled = FALSE, !.faults = @ + 1]
  /\ UNCHANGED <<conn, to_node, to_us>>

-----------------------------------------------------------------------------
Methods == version_handshake \/ send \/ ping \/ send_and_recv

Transport == Receive \/ Write \/ Finish \/ ReadTimeout \/ WriteTimeout \/ WriteFails

Works == Greet \/ Process

ConnectionsNext ==
  Methods \/ Transport \/ Works \/ SendChat \/ Stall \/ Resume \/ Disconnect

\* The thread runs and its reads and writes end after thirty seconds at most;
\* a node that is not stalled works.
ConnectionsFairness ==
  WF_connection_vars(Transport) /\ WF_connection_vars(Works)

ConnectionsSpec ==
  ConnectionsInit /\ [][ConnectionsNext]_connection_vars /\ ConnectionsFairness

-----------------------------------------------------------------------------
\* Correctness.

\* When ping or send_and_recv succeeds, the node has processed every message
\* sent before on the connection, in spite of pings that timed out and whose
\* pongs came later, of nonce 0, and of messages that were cut off.
PongMeansProcessed ==
  Idle /\ conn.returned \in [method : {"ping", "send_and_recv"}, outcome : {"ok"}] =>
    conn.sent \subseteq node.processed

\* Nobody waits for somebody who waits: as long as the node neither stalled
\* nor disconnected and nothing was cut off, every method succeeds, on
\* connections of either type.  Only full buffers in both directions, of a
\* caller that sends without reading, can fail a write.
SilenceHasAReason ==
  [][~ Idle /\ conn'.method = "none" /\ conn'.returned.outcome = "error" =>
       \/ node.faults > 0 \/ node.gone
       \/ Len(to_us) >= Capacity /\ Len(to_node) >= Capacity]_connection_vars

\* Every method returns, whatever the node does.
MethodsReturn == ~ Idle ~> Idle
=============================================================================
