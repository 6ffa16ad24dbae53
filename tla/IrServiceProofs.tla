-------------------------- MODULE IrServiceProofs --------------------------
(***************************************************************************)
(* Proofs about the ir-builder service and about one of its connections.   *)
(*                                                                         *)
(* A connection: a pong means that everything sent before was processed,   *)
(* and no method fails without a reason.                                   *)
(* Both arguments are about what is in flight.  What was written is        *)
(* processed or still on its way (Delivered).  No ping or pong in flight   *)
(* has a nonce that was not given out, and the current one only once it    *)
(* was written (Fresh).  So while a method waits for the pong of the       *)
(* current nonce, everything on its way to the node is in front of the     *)
(* ping (Ordered), and a pong of that nonce on its way back means that it  *)
(* is all through.  The other way round, as long as nothing was torn and   *)
(* nobody stalled, what a method waits for is on its way to us, or what    *)
(* makes the node send it is on its way there or still to be written       *)
(* (Underway): there is always a step other than a timeout's.              *)
(*                                                                         *)
(* The service: only an init which gets the mutex after the health checker *)
(* was answered can do harm.                                               *)
(* OnlyLateInitsHurt speaks of the states between two requests and is not  *)
(* inductive.  What it rests on is that without a late init                *)
(*   - a thread in the middle of an init means that nobody was told of a   *)
(*     service yet, so that no driver has run and there is no metadata to  *)
(*     go stale (Undisturbed);                                             *)
(*   - an init in progress has made one connection for each index below    *)
(*     the one it is at, and reconnecting only replaces (Progress);        *)
(*   - the step of the thread that holds the mutex is one of its request's *)
(*     (Steps), and drivers call only after a success (Clients).           *)
(***************************************************************************)
EXTENDS IrService, Connections, SequenceTheorems, TLAPS

-----------------------------------------------------------------------------
\* A connection.

Commands == {"version", "wtxidrelay", "sendaddrv2", "verack", "message", "ping", "pong",
             "inv", "torn"}

Messages == [command : Commands, n : Nat]

Pings == {"ping", "send_and_recv"}

ConnFields == {"connection_type", "ping_counter", "method", "first", "out", "last",
               "returned", "sends", "sent"}

Wired ==
  /\ to_node \in Seq(Messages) /\ to_us \in Seq(Messages)
  /\ DOMAIN conn = ConnFields
  /\ conn.ping_counter \in Nat /\ conn.sends \in Nat
  /\ conn.out \in Seq(Messages)
  /\ DOMAIN node = {"greeted", "processed", "stalled", "gone", "faults", "chat"}

InFlight(s, message) == \E k \in DOMAIN s : s[k] = message

Counter == conn.ping_counter

\* What was sent is processed, or in flight.
Delivered ==
  \A n \in conn.sent : n \in node.processed \/ InFlight(to_node, Msg("message", n))

\* Is the ping of a method still to be written?
Unwritten == conn.method \in Pings /\ conn.out # << >>

Fresh ==
  \A n \in Nat :
    InFlight(to_node, Msg("ping", n)) \/ InFlight(to_us, Msg("pong", n)) =>
      n <= Counter /\ (Unwritten => n < Counter)

\* Is the pong of the current ping what is waited for?
AwaitsPong == conn.last = << Msg("pong", Counter) >> /\ conn.out = << >>

Ordered ==
  AwaitsPong =>
    /\ \A i, j \in DOMAIN to_node :
         to_node[i] = Msg("ping", Counter) /\ to_node[j].command = "message" => j < i
    /\ InFlight(to_us, Msg("pong", Counter)) => conn.sent \subseteq node.processed

\* Methods that ping write their ping last, and then wait for its pong.
Methodical ==
  /\ conn.method \in Pings =>
       /\ Counter # 0 /\ conn.first = << >>
       /\ conn.last \in {<< >>, << Msg("pong", Counter) >>}
       /\ conn.out # << >> => /\ conn.last # << >>
                              /\ conn.out[Len(conn.out)] = Msg("ping", Counter)
       /\ \A k \in DOMAIN conn.out :
            conn.out[k].command = "ping" /\ k # Len(conn.out) => conn.out[k].n = 0
       /\ conn.last = << >> => conn.sent \subseteq node.processed
  /\ conn.method \notin Pings =>
       /\ conn.last # << Msg("pong", Counter) >>
       /\ \A k \in DOMAIN conn.out : conn.out[k].command # "ping"
  /\ Idle => conn.out = << >>

ConnectionsInductive ==
  Wired /\ Delivered /\ Fresh /\ Ordered /\ Methodical /\ PongMeansProcessed

-----------------------------------------------------------------------------
\* Two messages are equal when their parts are.
LEMMA MessageParts ==
  ASSUME NEW c, NEW n
  PROVE  /\ Msg(c, n).command = c /\ Msg(c, n).n = n
         /\ c \in Commands /\ n \in Nat => Msg(c, n) \in Messages
         /\ \A m \in Messages : m = Msg(m.command, m.n)
         /\ \A d, k : Msg(c, n) = Msg(d, k) => c = d /\ n = k
  BY DEF Msg, Messages

\* What is in flight when a message is added to what is.
LEMMA Appended ==
  ASSUME NEW s \in Seq(Messages), NEW m \in Messages
  PROVE  /\ Append(s, m) \in Seq(Messages) /\ Len(Append(s, m)) = Len(s) + 1
         /\ \A k \in DOMAIN s : Append(s, m)[k] = s[k]
         /\ Append(s, m)[Len(s) + 1] = m
         /\ \A x : InFlight(Append(s, m), x) <=> InFlight(s, x) \/ x = m
<1>1. /\ Append(s, m) \in Seq(Messages) /\ Len(Append(s, m)) = Len(s) + 1
      /\ Append(s, m)[Len(s) + 1] = m
      /\ DOMAIN Append(s, m) = 1 .. Len(s) + 1 /\ DOMAIN s = 1 .. Len(s)
      /\ Len(s) \in Nat
  OBVIOUS
<1>2. \A k \in 1 .. Len(s) : Append(s, m)[k] = s[k]
  OBVIOUS
<1>3. ASSUME NEW x PROVE InFlight(Append(s, m), x) <=> InFlight(s, x) \/ x = m
  BY <1>1, <1>2 DEF InFlight
<1> QED
  BY <1>1, <1>2, <1>3

\* What is in flight when the first message is taken.
LEMMA Taken ==
  ASSUME NEW s \in Seq(Messages), s # << >>
  PROVE  /\ Tail(s) \in Seq(Messages) /\ Len(Tail(s)) = Len(s) - 1
         /\ Head(s) = s[1] /\ Head(s) \in Messages /\ 1 \in DOMAIN s
         /\ \A k \in DOMAIN Tail(s) : k + 1 \in DOMAIN s /\ Tail(s)[k] = s[k + 1]
         /\ \A x : InFlight(Tail(s), x) => InFlight(s, x)
         /\ \A x : InFlight(s, x) => InFlight(Tail(s), x) \/ x = Head(s)
<1>1. /\ Tail(s) \in Seq(Messages) /\ Len(Tail(s)) = Len(s) - 1
      /\ Head(s) = s[1] /\ Head(s) \in Messages
      /\ DOMAIN s = 1 .. Len(s) /\ Len(s) \in Nat /\ Len(s) # 0
      /\ DOMAIN Tail(s) = 1 .. Len(s) - 1
  OBVIOUS
<1>2. \A k \in 1 .. Len(s) - 1 : Tail(s)[k] = s[k + 1]
  OBVIOUS
<1>3. ASSUME NEW x, InFlight(Tail(s), x) PROVE InFlight(s, x)
  BY <1>1, <1>2, <1>3 DEF InFlight
<1>4. ASSUME NEW x, InFlight(s, x) PROVE InFlight(Tail(s), x) \/ x = Head(s)
  <2>1. PICK k \in 1 .. Len(s) : s[k] = x
    BY <1>1, <1>4 DEF InFlight
  <2>2. CASE k = 1
    BY <1>1, <2>1, <2>2
  <2>3. CASE k # 1
    <3>1. k - 1 \in 1 .. Len(s) - 1 /\ Tail(s)[k - 1] = x
      BY <1>1, <1>2, <2>1, <2>3
    <3> QED
      BY <1>1, <3>1 DEF InFlight
  <2> QED
    BY <2>2, <2>3
<1> QED
  BY <1>1, <1>2, <1>3, <1>4

\* The node answers with messages, among them a pong only of a ping's nonce.
LEMMA Replies ==
  ASSUME NEW m \in Messages
  PROVE  /\ Reply(m) \in Seq(Messages)
         /\ \A k \in DOMAIN Reply(m) :
              Reply(m)[k].command = "pong" => m = Msg("ping", Reply(m)[k].n)
<1>1. CASE m.command = "version"
  <2> DEFINE rest == << Msg("wtxidrelay", 0), Msg("sendaddrv2", 0), Msg("verack", 0) >>
  <2>1. Tail(Hello) = rest
    BY DEF Hello
  <2>2. Reply(m) = (IF node.greeted THEN << >> ELSE << Msg("version", 0) >>) \o rest
    BY <1>1, <2>1 DEF Reply
  <2>3. \A c \in Commands \ {"pong"} : Msg(c, 0) \in Messages /\ Msg(c, 0).command # "pong"
    BY MessageParts
  <2>4. /\ {Msg("version", 0), Msg("wtxidrelay", 0), Msg("sendaddrv2", 0),
            Msg("verack", 0)} \subseteq {x \in Messages : x.command # "pong"}
    BY <2>3 DEF Commands
  <2>5. rest \in Seq({x \in Messages : x.command # "pong"})
    BY <2>4
  <2> HIDE DEF rest
  <2>6. Reply(m) \in Seq({x \in Messages : x.command # "pong"})
    <3>1. CASE node.greeted
      <4>1. Reply(m) = << >> \o rest
        BY <2>2, <3>1
      <4> QED
        BY <2>5, <4>1
    <3>2. CASE ~ node.greeted
      <4>1. Reply(m) = << Msg("version", 0) >> \o rest
        BY <2>2, <3>2
      <4>2. << Msg("version", 0) >> \in Seq({x \in Messages : x.command # "pong"})
        BY <2>4
      <4> QED
        BY <2>5, <4>1, <4>2
    <3> QED
      BY <3>1, <3>2
  <2>7. \A k \in DOMAIN Reply(m) : Reply(m)[k] \in {x \in Messages : x.command # "pong"}
    BY <2>6
  <2>8. Reply(m) \in Seq(Messages)
    BY <2>6, SeqMonotonic
  <2> QED
    BY <2>7, <2>8
<1>2. CASE m.command = "ping"
  <2>1. Reply(m) = << Msg("pong", m.n) >>
    BY <1>2 DEF Reply
  <2>2. m = Msg("ping", m.n) /\ m.n \in Nat
    BY <1>2 DEF Msg, Messages
  <2> QED
    BY <2>1, <2>2 DEF Msg, Messages, Commands
<1>3. CASE m.command \notin {"version", "ping"}
  <2>1. Reply(m) = << >>
    BY <1>3 DEF Reply
  <2> QED
    BY <2>1
<1> QED
  BY <1>1, <1>2, <1>3

\* What is in flight when a reply is added to what is.
LEMMA Replied ==
  ASSUME NEW s \in Seq(Messages), NEW m \in Messages
  PROVE  /\ s \o Reply(m) \in Seq(Messages)
         /\ \A n \in Nat : InFlight(s \o Reply(m), Msg("pong", n)) =>
              InFlight(s, Msg("pong", n)) \/ m = Msg("ping", n)
<1>1. Reply(m) \in Seq(Messages)
  BY Replies
<1>2. /\ s \o Reply(m) \in Seq(Messages)
      /\ DOMAIN (s \o Reply(m)) = 1 .. Len(s) + Len(Reply(m))
      /\ DOMAIN s = 1 .. Len(s) /\ DOMAIN Reply(m) = 1 .. Len(Reply(m))
      /\ Len(s) \in Nat /\ Len(Reply(m)) \in Nat
  BY <1>1
<1>3. \A k \in DOMAIN (s \o Reply(m)) :
        (s \o Reply(m))[k] = IF k <= Len(s) THEN s[k] ELSE Reply(m)[k - Len(s)]
  BY <1>1
<1>4. ASSUME NEW n \in Nat, InFlight(s \o Reply(m), Msg("pong", n))
      PROVE  InFlight(s, Msg("pong", n)) \/ m = Msg("ping", n)
  <2>1. PICK k \in 1 .. Len(s) + Len(Reply(m)) : (s \o Reply(m))[k] = Msg("pong", n)
    BY <1>2, <1>4 DEF InFlight
  <2>2. CASE k <= Len(s)
    BY <1>2, <1>3, <2>1, <2>2 DEF InFlight
  <2>3. CASE ~ (k <= Len(s))
    <3>1. k - Len(s) \in DOMAIN Reply(m) /\ Reply(m)[k - Len(s)] = Msg("pong", n)
      BY <1>2, <1>3, <2>1, <2>3
    <3>2. Reply(m)[k - Len(s)].command = "pong" /\ Reply(m)[k - Len(s)].n = n
      BY <3>1, MessageParts
    <3> QED
      BY <3>1, <3>2, Replies
  <2> QED
    BY <2>2, <2>3
<1> QED
  BY <1>2, <1>4

-----------------------------------------------------------------------------
\* Nothing is in flight on a connection that has just been made.
LEMMA ConnectionsStart == ConnectionsInit => ConnectionsInductive
<1> SUFFICES ASSUME ConnectionsInit PROVE ConnectionsInductive
  OBVIOUS
<1>1. /\ DOMAIN conn = ConnFields /\ conn.ping_counter = 0 /\ conn.method = "none"
      /\ conn.out = << >> /\ conn.last = << >> /\ conn.returned = None
      /\ conn.sends = 0 /\ conn.sent = {}
  BY DEF ConnectionsInit, Nothing, ConnFields
<1>2. to_node = << >> /\ to_us = << >> /\ << >> \in Seq(Messages)
  BY DEF ConnectionsInit
<1>3. \A x : ~ InFlight(<< >>, x) /\ << >> # << x >>
  BY DEF InFlight
<1>4. Wired
  BY <1>1, <1>2 DEF ConnectionsInit, Wired
<1>5. Delivered /\ Fresh /\ Ordered /\ Methodical
  BY <1>1, <1>2, <1>3 DEF Delivered, Fresh, Ordered, AwaitsPong, Methodical, Pings
<1>6. PongMeansProcessed
  BY <1>1 DEF PongMeansProcessed
<1> QED
  BY <1>4, <1>5, <1>6 DEF ConnectionsInductive

-----------------------------------------------------------------------------
\* The handshake and send wait for no pong.
LEMMA QuietMethods ==
  ASSUME ConnectionsInductive, version_handshake \/ send
  PROVE  ConnectionsInductive'
<1>1. /\ UNCHANGED <<to_node, to_us, node>>
      /\ DOMAIN conn' = ConnFields
      /\ conn'.ping_counter = conn.ping_counter /\ conn'.sends \in Nat
      /\ conn'.sent = conn.sent /\ conn'.method \in {"version_handshake", "send"}
      /\ conn'.out \in {Hello, << Message >>}
      /\ conn'.last \in {<< >>, << Msg("verack", 0) >>}
  <2>1. DOMAIN conn = ConnFields /\ conn.sends \in Nat
    BY DEF ConnectionsInductive, Wired
  <2>2. CASE version_handshake
    <3>1. /\ UNCHANGED <<to_node, to_us, node>>
          /\ conn' = [conn EXCEPT !.method = "version_handshake",
                                  !.first = handshake_waits_for,
                                  !.out = Hello, !.last = << Msg("verack", 0) >>]
      BY <2>2 DEF version_handshake, Begin
    <3> QED
      BY <2>1, <3>1 DEF ConnFields
  <2>3. CASE send
    <3>1. /\ UNCHANGED <<to_node, to_us, node>>
          /\ conn' = [conn EXCEPT !.method = "send", !.first = << >>, !.out = << Message >>,
                                  !.last = << >>, !.sends = @ + 1]
      BY <2>1, <2>3 DEF send, Begin, Nothing, ConnFields
    <3> QED
      BY <2>1, <3>1 DEF ConnFields
  <2> QED
    BY <2>2, <2>3
<1>2. /\ Hello \in Seq(Messages) /\ << Message >> \in Seq(Messages)
      /\ \A k \in DOMAIN Hello : Hello[k].command # "ping"
      /\ \A k \in DOMAIN << Message >> : << Message >>[k].command # "ping"
  <2>1. \A c \in Commands \ {"ping"} : \A n \in Nat :
          Msg(c, n) \in Messages /\ Msg(c, n).command # "ping"
    BY MessageParts
  <2>2. conn.sends + 1 \in Nat
    BY DEF ConnectionsInductive, Wired
  <2>3. Message \in Messages /\ Message.command # "ping"
    BY <2>1, <2>2 DEF Message, Commands
  <2>4. /\ Msg("version", 0) \in Messages /\ Msg("version", 0).command # "ping"
        /\ Msg("wtxidrelay", 0) \in Messages /\ Msg("wtxidrelay", 0).command # "ping"
        /\ Msg("sendaddrv2", 0) \in Messages /\ Msg("sendaddrv2", 0).command # "ping"
        /\ Msg("verack", 0) \in Messages /\ Msg("verack", 0).command # "ping"
    BY <2>1 DEF Commands
  <2> QED
    BY <2>3, <2>4 DEF Hello
<1>3. conn'.method \notin Pings /\ conn'.method # "none"
  BY <1>1 DEF Pings
<1>4. conn'.last # << Msg("pong", Counter') >>
  <2>1. Msg("verack", 0) # Msg("pong", Counter')
    BY MessageParts
  <2>2. << Msg("verack", 0) >> # << Msg("pong", Counter') >> /\ << >> # << Msg("pong", Counter') >>
    BY <2>1
  <2> QED
    BY <1>1, <2>2
<1>5. Wired'
  BY <1>1, <1>2 DEF ConnectionsInductive, Wired
<1>6. Delivered' /\ Fresh'
  BY <1>1, <1>3 DEF ConnectionsInductive, Delivered, Fresh, Unwritten, Counter
<1>7. Methodical'
  BY <1>1, <1>2, <1>3, <1>4 DEF Methodical, Idle
<1> QED
  BY <1>3, <1>4, <1>5, <1>6, <1>7
  DEF ConnectionsInductive, Ordered, AwaitsPong, PongMeansProcessed, Idle

\* A ping takes a nonce that is not in flight.
LEMMA PingMethods ==
  ASSUME ConnectionsInductive, ping \/ send_and_recv
  PROVE  ConnectionsInductive'
<1>1. /\ UNCHANGED <<to_node, to_us, node>>
      /\ DOMAIN conn' = ConnFields
      /\ conn'.ping_counter = conn.ping_counter + 1 /\ conn'.sends \in Nat
      /\ conn'.sent = conn.sent /\ conn'.method \in Pings /\ conn'.first = << >>
      /\ conn'.out \in {<< Msg("ping", Nonce) >>,
                        << Message, Msg("ping", 0), Msg("ping", Nonce) >>}
      /\ conn'.last = << Msg("pong", Nonce) >>
  <2>1. DOMAIN conn = ConnFields /\ conn.sends \in Nat
    BY DEF ConnectionsInductive, Wired
  <2>2. CASE ping
    <3>1. /\ UNCHANGED <<to_node, to_us, node>>
          /\ conn' = [conn EXCEPT !.method = "ping", !.first = << >>,
                                  !.out = << Msg("ping", Nonce) >>,
                                  !.last = << Msg("pong", Nonce) >>,
                                  !.ping_counter = @ + 1]
      BY <2>1, <2>2 DEF ping, Begin, Nothing, ConnFields
    <3> QED
      BY <2>1, <3>1 DEF ConnFields, Pings
  <2>3. CASE send_and_recv
    <3>1. /\ UNCHANGED <<to_node, to_us, node>>
          /\ conn' = [conn EXCEPT !.method = "send_and_recv", !.first = << >>,
                        !.out = << Message, Msg("ping", 0), Msg("ping", Nonce) >>,
                        !.last = << Msg("pong", Nonce) >>,
                        !.sends = @ + 1, !.ping_counter = @ + 1]
      BY <2>1, <2>3 DEF send_and_recv, Begin, Nothing, ConnFields
    <3> QED
      BY <2>1, <3>1 DEF ConnFields, Pings
  <2> QED
    BY <2>2, <2>3
<1>2. /\ Counter' = Nonce /\ Counter \in Nat /\ Nonce = Counter + 1
      /\ conn.sends + 1 \in Nat
  BY <1>1 DEF Counter, Nonce, ConnectionsInductive, Wired
<1>3. /\ Msg("ping", Nonce) \in Messages /\ Msg("ping", 0) \in Messages
      /\ Message \in Messages /\ Message.command = "message" /\ Msg("ping", 0).n = 0
  BY <1>2, MessageParts DEF Message, Commands
<1>4. /\ conn'.out \in Seq(Messages) /\ conn'.out # << >>
      /\ conn'.out[Len(conn'.out)] = Msg("ping", Nonce)
      /\ \A k \in DOMAIN conn'.out :
           conn'.out[k].command = "ping" /\ k # Len(conn'.out) => conn'.out[k].n = 0
  <2>1. CASE conn'.out = << Msg("ping", Nonce) >>
    <3> DEFINE o == << Msg("ping", Nonce) >>
    <3>1. o \in Seq(Messages) /\ Len(o) = 1 /\ o[1] = Msg("ping", Nonce) /\ o # << >>
          /\ DOMAIN o = {1}
      BY <1>3
    <3> QED
      BY <2>1, <3>1
  <2>2. CASE conn'.out = << Message, Msg("ping", 0), Msg("ping", Nonce) >>
    <3> DEFINE o == << Message, Msg("ping", 0), Msg("ping", Nonce) >>
    <3>1. /\ o \in Seq(Messages) /\ Len(o) = 3 /\ o[3] = Msg("ping", Nonce) /\ o # << >>
          /\ o[1] = Message /\ o[2] = Msg("ping", 0) /\ DOMAIN o = {1, 2, 3}
      BY <1>3
    <3> HIDE DEF o
    <3>2. conn'.out = o
      BY <2>2 DEF o
    <3>3. \A k \in DOMAIN o : o[k].command = "ping" /\ k # Len(o) => o[k].n = 0
      BY <1>3, <3>1
    <3> QED
      BY <3>1, <3>2, <3>3
  <2> QED
    BY <1>1, <2>1, <2>2
<1>5. Wired'
  BY <1>1, <1>2, <1>4 DEF ConnectionsInductive, Wired, Counter
<1>6. Delivered'
  BY <1>1 DEF ConnectionsInductive, Delivered
<1>7. Fresh'
  BY <1>1, <1>2 DEF ConnectionsInductive, Fresh
<1>8. Methodical'
  BY <1>1, <1>2, <1>4 DEF Methodical, Idle, Pings
<1> QED
  BY <1>1, <1>4, <1>5, <1>6, <1>7, <1>8
  DEF ConnectionsInductive, Ordered, AwaitsPong, PongMeansProcessed, Idle, Pings

-----------------------------------------------------------------------------
\* What is received is what is waited for, or skipped.
LEMMA ReceiveStep ==
  ASSUME ConnectionsInductive, Receive
  PROVE  ConnectionsInductive'
<1>1. /\ Awaited # << >> /\ to_us # << >> /\ to_us' = Tail(to_us)
      /\ UNCHANGED <<to_node, node>>
  BY DEF Receive, Nothing
<1>2. /\ to_us' \in Seq(Messages)
      /\ \A x : InFlight(to_us', x) => InFlight(to_us, x)
      /\ Head(to_us) = to_us[1] /\ 1 \in DOMAIN to_us
  BY <1>1, Taken DEF ConnectionsInductive, Wired
<1>3. /\ DOMAIN conn' = ConnFields
      /\ conn'.ping_counter = conn.ping_counter /\ conn'.sends = conn.sends
      /\ conn'.sent = conn.sent /\ conn'.method = conn.method /\ conn'.out = conn.out
      /\ conn'.returned = conn.returned
      /\ \/ conn'.last = conn.last /\ conn'.first \in {conn.first, << >>}
         \/ /\ conn'.last = << >> /\ conn.first = << >> /\ conn'.first = << >>
            /\ Head(to_us) = Awaited[1]
  <2>1. DOMAIN conn = ConnFields
    BY DEF ConnectionsInductive, Wired
  <2>2. CASE conn' = conn
    BY <2>1, <2>2
  <2>3. CASE conn' = [conn EXCEPT !.first = << >>]
    BY <2>1, <2>3 DEF ConnFields
  <2>4. CASE conn' = [conn EXCEPT !.last = << >>] /\ conn.first = << >>
             /\ Head(to_us) = Awaited[1]
    BY <2>1, <2>4 DEF ConnFields
  <2> QED
    BY <2>2, <2>3, <2>4 DEF Receive, Nothing, IsAwaited
<1>4. Counter' = Counter /\ Counter \in Nat
  BY <1>3 DEF Counter, ConnectionsInductive, Wired
<1>5. Wired'
  BY <1>1, <1>2, <1>3 DEF ConnectionsInductive, Wired
<1>6. Delivered'
  BY <1>1, <1>3 DEF ConnectionsInductive, Delivered
<1>7. Fresh'
  BY <1>1, <1>2, <1>3, <1>4 DEF ConnectionsInductive, Fresh, Unwritten
<1>8. \A x : << >> # << x >>
  OBVIOUS
<1>9. Ordered'
  BY <1>1, <1>2, <1>3, <1>4, <1>8 DEF ConnectionsInductive, Ordered, AwaitsPong
<1>10. ASSUME conn.method \in Pings, conn'.last = << >>, conn.last # << >>
       PROVE  conn.sent \subseteq node.processed /\ conn.out = << >>
  <2>1. conn.first = << >> /\ Head(to_us) = Awaited[1]
    BY <1>3, <1>10
  <2>2. Awaited = conn.last /\ conn.out = << >>
    BY <1>1, <2>1 DEF Awaited, Nothing
  <2>3. conn.last = << Msg("pong", Counter) >>
    BY <1>10 DEF ConnectionsInductive, Methodical
  <2>4. to_us[1] = Msg("pong", Counter)
    BY <1>2, <2>1, <2>2, <2>3
  <2> QED
    BY <1>2, <2>2, <2>3, <2>4 DEF ConnectionsInductive, Ordered, AwaitsPong, InFlight
<1>11. Methodical'
  <2>1. CASE conn.method \in Pings
    BY <1>1, <1>3, <1>4, <1>10, <2>1 DEF ConnectionsInductive, Methodical, Idle
  <2>2. CASE conn.method \notin Pings
    BY <1>3, <1>4, <1>8, <2>2 DEF ConnectionsInductive, Methodical, Idle
  <2> QED
    BY <2>1, <2>2
<1>12. PongMeansProcessed'
  BY <1>1, <1>3 DEF ConnectionsInductive, PongMeansProcessed, Idle
<1> QED
  BY <1>5, <1>6, <1>7, <1>9, <1>11, <1>12 DEF ConnectionsInductive

\* A message that is written is behind all that were.
LEMMA WriteStep ==
  ASSUME ConnectionsInductive, Write
  PROVE  ConnectionsInductive'
<1> DEFINE h == Head(conn.out)
<1>1. /\ conn.out # << >> /\ UNCHANGED <<to_us, node>>
      /\ to_node' = Append(to_node, h)
      /\ DOMAIN conn' = ConnFields
      /\ conn'.ping_counter = conn.ping_counter /\ conn'.sends = conn.sends
      /\ conn'.method = conn.method /\ conn'.out = Tail(conn.out)
      /\ conn'.first = conn.first /\ conn'.last = conn.last
      /\ conn'.returned = conn.returned
      /\ conn'.sent = IF h.command = "message" THEN conn.sent \cup {h.n} ELSE conn.sent
  BY DEF Write, Writing, Nothing, ConnectionsInductive, Wired, ConnFields
<1>2. /\ conn'.out \in Seq(Messages) /\ h \in Messages /\ h = conn.out[1]
      /\ conn.out \in Seq(Messages) /\ 1 \in DOMAIN conn.out
      /\ Len(conn'.out) = Len(conn.out) - 1 /\ Len(conn.out) \in Nat
      /\ \A k \in DOMAIN conn'.out : k + 1 \in DOMAIN conn.out /\ conn'.out[k] = conn.out[k + 1]
  BY <1>1, Taken DEF ConnectionsInductive, Wired
<1>3. /\ to_node' \in Seq(Messages) /\ Len(to_node') = Len(to_node) + 1
      /\ \A k \in DOMAIN to_node : to_node'[k] = to_node[k]
      /\ to_node'[Len(to_node) + 1] = h
      /\ \A x : InFlight(to_node', x) <=> InFlight(to_node, x) \/ x = h
  BY <1>1, <1>2, Appended DEF ConnectionsInductive, Wired
<1>4. /\ Counter' = Counter /\ Counter \in Nat
      /\ DOMAIN to_node' = 1 .. Len(to_node) + 1 /\ DOMAIN to_node = 1 .. Len(to_node)
      /\ Len(to_node) \in Nat
  BY <1>1, <1>3 DEF Counter, ConnectionsInductive, Wired
<1> HIDE DEF h
<1>5. conn'.out = << >> <=> Len(conn.out) = 1
  <2>1. ASSUME conn'.out = << >> PROVE Len(conn.out) = 1
    <3>1. Len(conn'.out) = 0
      BY <2>1
    <3>2. Len(conn.out) = Len(conn'.out) + 1
      BY <1>2
    <3> QED
      BY <3>1, <3>2
  <2>2. ASSUME Len(conn.out) = 1 PROVE conn'.out = << >>
    <3>1. Len(conn'.out) = 0
      BY <1>2, <2>2
    <3> QED
      BY <1>2, <3>1, EmptySeq
  <2> QED
    BY <2>1, <2>2
<1>6. Wired'
  BY <1>1, <1>2, <1>3 DEF ConnectionsInductive, Wired
<1>7. Delivered'
  <2>1. h = Msg(h.command, h.n)
    BY <1>2, MessageParts
  <2> QED
    BY <1>1, <1>3, <2>1 DEF ConnectionsInductive, Delivered
<1>8. CASE conn.method \in Pings
  <2>1. /\ Counter # 0 /\ conn.first = << >> /\ conn.last = << Msg("pong", Counter) >>
        /\ conn.out[Len(conn.out)] = Msg("ping", Counter)
        /\ \A k \in DOMAIN conn.out :
             conn.out[k].command = "ping" /\ k # Len(conn.out) => conn.out[k].n = 0
    BY <1>1, <1>8 DEF ConnectionsInductive, Methodical
  <2>2. \A n \in Nat : InFlight(to_node, Msg("ping", n)) \/ InFlight(to_us, Msg("pong", n)) =>
          n < Counter
    BY <1>1, <1>4, <1>8 DEF ConnectionsInductive, Fresh, Unwritten
  <2>3. Fresh'
    <3>1. ASSUME NEW n \in Nat, Msg("ping", n) = h
          PROVE  n <= Counter /\ (conn'.out # << >> => n < Counter)
      <4>1. h.command = "ping" /\ h.n = n
        BY <3>1, MessageParts
      <4>2. CASE Len(conn.out) = 1
        <5>1. h = Msg("ping", Counter)
          BY <1>2, <2>1, <4>2
        <5>2. n = Counter
          BY <4>1, <5>1, MessageParts
        <5> QED
          BY <1>4, <1>5, <4>2, <5>2
      <4>3. CASE Len(conn.out) # 1
        <5>1. conn.out[1].command = "ping" /\ conn.out[1].n = n
          BY <1>2, <4>1
        <5>2. conn.out[1].n = 0
          BY <1>2, <2>1, <4>3, <5>1
        <5> QED
          BY <1>4, <2>1, <5>1, <5>2
      <4> QED
        BY <4>2, <4>3
    <3> QED
      BY <1>1, <1>3, <1>4, <2>2, <3>1 DEF Fresh, Unwritten
  <2>4. Ordered'
    <3> SUFFICES ASSUME conn'.out = << >> PROVE Ordered'
      BY DEF Ordered, AwaitsPong
    <3>1. h = Msg("ping", Counter) /\ h.command = "ping"
      BY <1>2, <1>5, <2>1, MessageParts
    <3>2. ~ InFlight(to_node, Msg("ping", Counter)) /\ ~ InFlight(to_us', Msg("pong", Counter))
      BY <1>1, <1>4, <2>2
    <3>3. \A i \in DOMAIN to_node' :
            to_node'[i] = Msg("ping", Counter) => i = Len(to_node) + 1
      BY <1>3, <1>4, <3>2 DEF InFlight
    <3>4. \A j \in DOMAIN to_node' :
            to_node'[j].command = "message" => j < Len(to_node) + 1
      BY <1>3, <1>4, <3>1
    <3> QED
      BY <1>4, <3>2, <3>3, <3>4 DEF Ordered
  <2>5. Methodical'
    <3>1. conn'.out # << >> => conn'.out[Len(conn'.out)] = Msg("ping", Counter)
      <4> SUFFICES ASSUME conn'.out # << >> PROVE conn'.out[Len(conn'.out)] = Msg("ping", Counter)
        OBVIOUS
      <4>1. Len(conn'.out) \in DOMAIN conn'.out /\ Len(conn'.out) + 1 = Len(conn.out)
        BY <1>2
      <4> QED
        BY <1>2, <2>1, <4>1
    <3>2. \A k \in DOMAIN conn'.out :
            conn'.out[k].command = "ping" /\ k # Len(conn'.out) => conn'.out[k].n = 0
      BY <1>2, <2>1
    <3>3. conn'.last # << >> /\ conn'.last = << Msg("pong", Counter) >>
      BY <1>1, <2>1
    <3> QED
      BY <1>1, <1>4, <1>8, <2>1, <3>1, <3>2, <3>3 DEF Methodical, Idle, Pings
  <2>6. PongMeansProcessed'
    BY <1>1, <1>8 DEF PongMeansProcessed, Idle, Pings
  <2> QED
    BY <1>6, <1>7, <2>3, <2>4, <2>5, <2>6 DEF ConnectionsInductive
<1>9. CASE conn.method \notin Pings
  <2>1. /\ conn.last # << Msg("pong", Counter) >>
        /\ \A k \in DOMAIN conn.out : conn.out[k].command # "ping"
    BY <1>9 DEF ConnectionsInductive, Methodical
  <2>2. \A n : h # Msg("ping", n)
    BY <1>2, <2>1, MessageParts
  <2>3. Fresh' /\ Ordered'
    BY <1>1, <1>3, <1>4, <1>9, <2>1, <2>2
    DEF ConnectionsInductive, Fresh, Unwritten, Ordered, AwaitsPong
  <2>4. conn.method # "none"
    BY <1>1 DEF ConnectionsInductive, Methodical, Idle
  <2>6. Methodical'
    BY <1>1, <1>2, <1>4, <1>9, <2>1, <2>4 DEF Methodical, Idle
  <2>5. PongMeansProcessed'
    BY <1>1, <2>4 DEF PongMeansProcessed, Idle
  <2> QED
    BY <1>6, <1>7, <2>3, <2>5, <2>6 DEF ConnectionsInductive
<1> QED
  BY <1>8, <1>9

\* A method that returns leaves the connection idle; one that returns ok has
\* nothing left to write or to wait for.
LEMMA Returning ==
  ASSUME ConnectionsInductive, NEW outcome, Return(outcome), UNCHANGED <<to_us, node>>,
         to_node' = to_node \/ to_node' = Append(to_node, Msg("torn", 0)),
         outcome = "ok" => Awaited = << >> /\ ~ Writing
  PROVE  ConnectionsInductive'
<1>1. /\ DOMAIN conn' = ConnFields
      /\ conn'.ping_counter = conn.ping_counter /\ conn'.sends = conn.sends
      /\ conn'.sent = conn.sent /\ conn'.method = "none"
      /\ conn'.out = << >> /\ conn'.last = << >>
      /\ conn'.returned = [method |-> conn.method, outcome |-> outcome]
  BY DEF Return, Nothing, ConnectionsInductive, Wired, ConnFields
<1>2. Msg("torn", 0) \in Messages /\ \A n \in Nat : Msg("torn", 0) # Msg("ping", n)
  BY MessageParts DEF Commands
<1>3. /\ to_node' \in Seq(Messages)
      /\ \A x : InFlight(to_node, x) => InFlight(to_node', x)
      /\ \A n \in Nat : InFlight(to_node', Msg("ping", n)) => InFlight(to_node, Msg("ping", n))
  <2>1. to_node \in Seq(Messages)
    BY DEF ConnectionsInductive, Wired
  <2>2. CASE to_node' = to_node
    BY <2>1, <2>2
  <2>3. CASE to_node' = Append(to_node, Msg("torn", 0))
    <3>1. /\ Append(to_node, Msg("torn", 0)) \in Seq(Messages)
          /\ \A x : InFlight(Append(to_node, Msg("torn", 0)), x)
                 <=> InFlight(to_node, x) \/ x = Msg("torn", 0)
      BY <1>2, <2>1, Appended
    <3> QED
      BY <1>2, <2>3, <3>1
  <2> QED
    BY <2>2, <2>3
<1>4. << >> \in Seq(Messages) /\ \A x : << >> # << x >>
  OBVIOUS
<1>5. Wired'
  BY <1>1, <1>3, <1>4 DEF ConnectionsInductive, Wired
<1>6. Delivered' /\ Fresh' /\ Ordered' /\ Methodical'
  BY <1>1, <1>3, <1>4
  DEF ConnectionsInductive, Delivered, Fresh, Ordered, AwaitsPong, Methodical, Unwritten,
      Pings, Counter, Idle
<1>7. PongMeansProcessed'
  <2> SUFFICES ASSUME conn.method \in Pings, outcome = "ok"
               PROVE  conn.sent \subseteq node.processed
    BY <1>1 DEF PongMeansProcessed, Pings
  <2>1. conn.first = << >>
    BY DEF ConnectionsInductive, Methodical
  <2>2. conn.out = << >>
    BY <2>1 DEF Writing, Nothing
  <2>3. conn.last = << >>
    BY <2>1, <2>2 DEF Awaited, Nothing
  <2> QED
    BY <2>3 DEF ConnectionsInductive, Methodical
<1> QED
  BY <1>5, <1>6, <1>7 DEF ConnectionsInductive

\* A message that is lost with the connection is in flight nowhere.
LEMMA Losing ==
  ASSUME ConnectionsInductive, Writing, conn' = [conn EXCEPT !.out = Tail(@)],
         UNCHANGED <<to_node, to_us, node>>
  PROVE  ConnectionsInductive'
<1>1. /\ conn.out # << >>
      /\ DOMAIN conn' = ConnFields
      /\ conn'.ping_counter = conn.ping_counter /\ conn'.sends = conn.sends
      /\ conn'.method = conn.method /\ conn'.out = Tail(conn.out)
      /\ conn'.first = conn.first /\ conn'.last = conn.last
      /\ conn'.returned = conn.returned /\ conn'.sent = conn.sent
  BY DEF Writing, Nothing, ConnectionsInductive, Wired, ConnFields
<1>2. /\ conn'.out \in Seq(Messages) /\ conn.out \in Seq(Messages)
      /\ Len(conn'.out) = Len(conn.out) - 1 /\ Len(conn.out) \in Nat
      /\ \A k \in DOMAIN conn'.out : k + 1 \in DOMAIN conn.out /\ conn'.out[k] = conn.out[k + 1]
  BY <1>1, Taken DEF ConnectionsInductive, Wired
<1>3. Counter' = Counter /\ Counter \in Nat
  BY <1>1 DEF Counter, ConnectionsInductive, Wired
<1>4. Wired'
  BY <1>1, <1>2 DEF ConnectionsInductive, Wired
<1>5. Delivered' /\ Fresh'
  BY <1>1, <1>3 DEF ConnectionsInductive, Delivered, Fresh, Unwritten
<1>6. Ordered'
  <2>1. CASE conn.method \in Pings
    <3>1. \A n \in Nat : InFlight(to_node, Msg("ping", n)) \/ InFlight(to_us, Msg("pong", n)) =>
            n < Counter
      BY <1>1, <1>3, <2>1 DEF ConnectionsInductive, Fresh, Unwritten
    <3>2. ~ InFlight(to_node, Msg("ping", Counter)) /\ ~ InFlight(to_us, Msg("pong", Counter))
      BY <1>3, <3>1
    <3> QED
      BY <1>3, <3>2 DEF Ordered, InFlight
  <2>2. CASE conn.method \notin Pings
    BY <1>1, <1>3, <2>2 DEF ConnectionsInductive, Methodical, Ordered, AwaitsPong
  <2> QED
    BY <2>1, <2>2
<1>7. Methodical' /\ conn.method # "none"
  <2>1. conn'.out # << >> => /\ Len(conn'.out) \in DOMAIN conn'.out
                             /\ Len(conn'.out) + 1 = Len(conn.out)
    BY <1>2
  <2>2. conn'.out # << >> => conn'.out[Len(conn'.out)] = conn.out[Len(conn.out)]
    BY <1>2, <2>1
  <2>3. conn.method # "none"
    BY <1>1 DEF ConnectionsInductive, Methodical, Idle
  <2>4. CASE conn.method \in Pings
    <3>1. \A k \in DOMAIN conn'.out :
            conn'.out[k].command = "ping" /\ k # Len(conn'.out) => conn'.out[k].n = 0
      <4>1. \A k \in DOMAIN conn.out :
              conn.out[k].command = "ping" /\ k # Len(conn.out) => conn.out[k].n = 0
        BY <2>4 DEF ConnectionsInductive, Methodical
      <4> QED
        BY <1>2, <4>1
    <3> QED
      BY <1>1, <1>3, <2>2, <2>3, <2>4, <3>1 DEF ConnectionsInductive, Methodical, Idle
  <2>5. CASE conn.method \notin Pings
    BY <1>1, <1>2, <1>3, <2>3, <2>5 DEF ConnectionsInductive, Methodical, Idle
  <2> QED
    BY <2>3, <2>4, <2>5
<1> QED
  BY <1>1, <1>4, <1>5, <1>6, <1>7 DEF ConnectionsInductive, PongMeansProcessed, Idle

\* Everything the workload's end of the connection does.
LEMMA TransportStep ==
  ASSUME ConnectionsInductive, Transport
  PROVE  ConnectionsInductive'
<1>1. CASE Finish
  BY <1>1, Returning DEF Finish, Nothing
<1>2. CASE ReadTimeout
  BY <1>2, Returning DEF ReadTimeout
<1>3. CASE WriteTimeout
  BY <1>3, Returning DEF WriteTimeout
<1>4. CASE WriteFails
  BY <1>4, Returning, Losing DEF WriteFails
<1> QED
  BY <1>1, <1>2, <1>3, <1>4, ReceiveStep, WriteStep DEF Transport

-----------------------------------------------------------------------------
\* A step of the node that sends no pong and forgets nothing it processed.
LEMMA NodeChatting ==
  ASSUME ConnectionsInductive, UNCHANGED <<conn, to_node>>,
         DOMAIN node' = DOMAIN node, node'.processed = node.processed,
         to_us' \in Seq(Messages),
         \A n \in Nat : InFlight(to_us', Msg("pong", n)) => InFlight(to_us, Msg("pong", n))
  PROVE  ConnectionsInductive'
<1>1. Counter' = Counter /\ Counter \in Nat
  BY DEF Counter, ConnectionsInductive, Wired
<1>2. Wired' /\ Delivered' /\ Fresh'
  BY <1>1 DEF ConnectionsInductive, Wired, Delivered, Fresh, Unwritten
<1>3. Ordered'
  BY <1>1 DEF ConnectionsInductive, Ordered, AwaitsPong
<1>4. Methodical' /\ PongMeansProcessed'
  BY <1>1 DEF ConnectionsInductive, Methodical, PongMeansProcessed, Idle
<1> QED
  BY <1>2, <1>3, <1>4 DEF ConnectionsInductive

\* The node takes its messages in order: by the time it answers the current
\* ping, nothing that was sent before is left.
LEMMA ProcessStep ==
  ASSUME ConnectionsInductive, Process
  PROVE  ConnectionsInductive'
<1> DEFINE m == Head(to_node)
<1>1. /\ to_node # << >> /\ UNCHANGED conn
      /\ to_node' = Tail(to_node) /\ to_us' = to_us \o Reply(m)
      /\ DOMAIN node' = DOMAIN node
      /\ node'.processed = IF m.command = "message" THEN node.processed \cup {m.n}
                           ELSE node.processed
  BY DEF Process, ConnectionsInductive, Wired
<1>2. /\ to_node' \in Seq(Messages)
      /\ m = to_node[1] /\ m \in Messages /\ 1 \in DOMAIN to_node
      /\ \A k \in DOMAIN to_node' : k + 1 \in DOMAIN to_node /\ to_node'[k] = to_node[k + 1]
      /\ \A x : InFlight(to_node', x) => InFlight(to_node, x)
      /\ \A x : InFlight(to_node, x) => InFlight(to_node', x) \/ x = m
  BY <1>1, Taken DEF ConnectionsInductive, Wired
<1>3. /\ to_us' \in Seq(Messages)
      /\ \A n \in Nat : InFlight(to_us', Msg("pong", n)) =>
           InFlight(to_us, Msg("pong", n)) \/ m = Msg("ping", n)
  BY <1>1, <1>2, Replied DEF ConnectionsInductive, Wired
<1> HIDE DEF m
<1>4. Counter' = Counter /\ Counter \in Nat /\ node.processed \subseteq node'.processed
  BY <1>1 DEF Counter, ConnectionsInductive, Wired
<1>5. Wired'
  BY <1>1, <1>2, <1>3 DEF ConnectionsInductive, Wired
<1>6. Delivered'
  <2> SUFFICES ASSUME NEW n \in conn.sent
               PROVE  n \in node'.processed \/ InFlight(to_node', Msg("message", n))
    BY <1>1 DEF Delivered
  <2>1. n \in node.processed \/ InFlight(to_node, Msg("message", n))
    BY DEF ConnectionsInductive, Delivered
  <2>2. CASE m = Msg("message", n)
    BY <1>1, <2>2, MessageParts
  <2> QED
    BY <1>2, <1>4, <2>1, <2>2
<1>7. Fresh'
  <2>1. \A n \in Nat : m = Msg("ping", n) => InFlight(to_node, Msg("ping", n))
    BY <1>2 DEF InFlight
  <2> QED
    BY <1>1, <1>2, <1>3, <1>4, <2>1 DEF ConnectionsInductive, Fresh, Unwritten
<1>8. Ordered'
  <2> SUFFICES ASSUME AwaitsPong
               PROVE  /\ \A i, j \in DOMAIN to_node' :
                           to_node'[i] = Msg("ping", Counter)
                             /\ to_node'[j].command = "message" => j < i
                      /\ InFlight(to_us', Msg("pong", Counter)) =>
                           conn.sent \subseteq node'.processed
    BY <1>1, <1>4 DEF Ordered, AwaitsPong
  <2>1. \A i, j \in DOMAIN to_node :
          to_node[i] = Msg("ping", Counter) /\ to_node[j].command = "message" => j < i
    BY DEF ConnectionsInductive, Ordered
  <2>2. ASSUME NEW i \in DOMAIN to_node', NEW j \in DOMAIN to_node',
               to_node'[i] = Msg("ping", Counter), to_node'[j].command = "message"
        PROVE  j < i
    <3>1. j + 1 < i + 1
      BY <1>2, <2>1, <2>2
    <3>2. i \in Nat /\ j \in Nat
      BY <1>2
    <3> QED
      BY <3>1, <3>2
  <2>3. ASSUME m = Msg("ping", Counter) PROVE conn.sent \subseteq node.processed
    <3>1. \A j \in DOMAIN to_node : to_node[j].command # "message"
      <4>1. \A j \in DOMAIN to_node : j \in Nat /\ ~ (j < 1)
        BY DEF ConnectionsInductive, Wired
      <4> QED
        BY <1>2, <2>1, <2>3, <4>1
    <3>2. \A n : ~ InFlight(to_node, Msg("message", n))
      BY <3>1, MessageParts DEF InFlight
    <3> QED
      BY <3>2 DEF ConnectionsInductive, Delivered
  <2>4. InFlight(to_us, Msg("pong", Counter)) => conn.sent \subseteq node.processed
    BY DEF ConnectionsInductive, Ordered
  <2> QED
    BY <1>3, <1>4, <2>2, <2>3, <2>4
<1>9. Methodical' /\ PongMeansProcessed'
  BY <1>1, <1>4 DEF ConnectionsInductive, Methodical, PongMeansProcessed, Idle
<1> QED
  BY <1>5, <1>6, <1>7, <1>8, <1>9 DEF ConnectionsInductive

\* Everything the node does.
LEMMA NodeStep ==
  ASSUME ConnectionsInductive, Works \/ SendChat \/ Stall \/ Resume \/ Disconnect
  PROVE  ConnectionsInductive'
<1>1. to_us \in Seq(Messages) /\ DOMAIN node = {"greeted", "processed", "stalled", "gone",
                                                "faults", "chat"}
  BY DEF ConnectionsInductive, Wired
<1>2. CASE Greet \/ SendChat
  <2>1. PICK c \in {"version", "inv"} : to_us' = Append(to_us, Msg(c, 0))
    BY <1>2 DEF Greet, SendChat, Chat
  <2>2. Msg(c, 0) \in Messages /\ \A n \in Nat : Msg(c, 0) # Msg("pong", n)
    BY MessageParts DEF Commands
  <2>3. /\ to_us' \in Seq(Messages)
        /\ \A n \in Nat : InFlight(to_us', Msg("pong", n)) => InFlight(to_us, Msg("pong", n))
    BY <1>1, <2>1, <2>2, Appended
  <2>4. /\ UNCHANGED <<conn, to_node>>
        /\ DOMAIN node' = DOMAIN node /\ node'.processed = node.processed
    BY <1>1, <1>2 DEF Greet, SendChat
  <2> QED
    BY <2>3, <2>4, NodeChatting
<1>3. CASE Stall \/ Resume \/ Disconnect
  <2>1. /\ UNCHANGED <<conn, to_node, to_us>>
        /\ DOMAIN node' = DOMAIN node /\ node'.processed = node.processed
    BY <1>1, <1>3 DEF Stall, Resume, Disconnect
  <2> QED
    BY <1>1, <2>1, NodeChatting
<1> QED
  BY <1>2, <1>3, ProcessStep DEF Works

-----------------------------------------------------------------------------
\* The argument about methods that fail is about what is in flight, too: as
\* long as there was no fault, what a method waits for is on its way, or what
\* makes the node send it is, or the method has still to write that.

\* Before the handshake has heard of the node, nothing of its greeting is lost.
Greeting == (conn.returned = None /\ Idle) \/ conn.first # << >>

Greeted == Greeting => ~ node.greeted \/ InFlight(to_us, Msg("version", 0))

\* Only the handshake and pings wait, and the handshake begins with a version.
Shaped ==
  /\ conn.first # << >> =>
       /\ conn.method = "version_handshake" /\ conn.connection_type = "Outbound"
       /\ conn.first = << Msg("version", 0) >>
       /\ conn.out # << >> /\ conn.out[1] = Msg("version", 0)
  /\ conn.method \notin Pings /\ conn.last # << >> =>
       conn.method = "version_handshake" /\ conn.last = << Msg("verack", 0) >>

VerackComes ==
  \/ conn.out # << >> /\ conn.out[1] = Msg("version", 0)
  \/ InFlight(to_node, Msg("version", 0))
  \/ InFlight(to_us, Msg("verack", 0))

PongComes ==
  \/ conn.out # << >>
  \/ InFlight(to_node, Msg("ping", Counter))
  \/ InFlight(to_us, Msg("pong", Counter))

OnItsWay ==
  node.faults = 0 /\ ~ node.gone /\ conn.last # << >> =>
    /\ conn.method = "version_handshake" => VerackComes
    /\ conn.method \in Pings => PongComes

Underway ==
  /\ node.faults \in Nat /\ (node.stalled => node.faults > 0)
  /\ Greeted /\ Shaped /\ OnItsWay

\* A method that is not under way waits for nothing.
LEMMA IdleWaits ==
  ASSUME ConnectionsInductive, Underway, Idle
  PROVE  conn.first = << >> /\ conn.last = << >> /\ conn.out = << >> /\ conn.method = "none"
<1>1. conn.method = "none" /\ conn.method \notin Pings /\ conn.method # "version_handshake"
  BY DEF Idle, Pings
<1>2. conn.out = << >>
  BY DEF ConnectionsInductive, Methodical
<1> QED
  BY <1>1, <1>2 DEF Underway, Shaped

\* What is in flight in either half of a sequence is in flight in the whole.
LEMMA Joined ==
  ASSUME NEW s \in Seq(Messages), NEW r \in Seq(Messages)
  PROVE  \A x : InFlight(s, x) \/ InFlight(r, x) => InFlight(s \o r, x)
<1>1. \A x : InFlight(r, x) => InFlight(s \o r, x)
  <2>1. SUFFICES ASSUME NEW x, InFlight(r, x) PROVE InFlight(s \o r, x)
    OBVIOUS
  <2>2. PICK k \in DOMAIN r : r[k] = x
    BY <2>1 DEF InFlight
  <2>3. Len(s) \in Nat /\ k \in 1 .. Len(r) /\ Len(r) \in Nat
    OBVIOUS
  <2>4. Len(s) + k \in DOMAIN (s \o r) /\ (s \o r)[Len(s) + k] = x
    <3>1. /\ DOMAIN (s \o r) = 1 .. Len(s) + Len(r)
          /\ \A j \in 1 .. Len(s) + Len(r) :
               (s \o r)[j] = IF j <= Len(s) THEN s[j] ELSE r[j - Len(s)]
      OBVIOUS
    <3>2. /\ Len(s) + k \in 1 .. Len(s) + Len(r) /\ ~ (Len(s) + k <= Len(s))
          /\ (Len(s) + k) - Len(s) = k
      BY <2>3
    <3> QED
      BY <2>2, <3>1, <3>2
  <2> QED
    BY <2>4 DEF InFlight
<1>2. \A x : InFlight(s, x) => InFlight(s \o r, x)
  <2>1. SUFFICES ASSUME NEW x, InFlight(s, x) PROVE InFlight(s \o r, x)
    OBVIOUS
  <2>2. PICK k \in DOMAIN s : s[k] = x
    BY <2>1 DEF InFlight
  <2>3. k \in DOMAIN (s \o r) /\ (s \o r)[k] = s[k]
    OBVIOUS
  <2> QED
    BY <2>2, <2>3 DEF InFlight
<1> QED
  BY <1>1, <1>2

\* What the answer to a version or to a ping has in it.
LEMMA Answered ==
  ASSUME NEW s \in Seq(Messages), NEW m \in Messages
  PROVE  /\ \A x : InFlight(s, x) => InFlight(s \o Reply(m), x)
         /\ m = Msg("version", 0) => InFlight(s \o Reply(m), Msg("verack", 0))
         /\ m.command = "version" /\ ~ node.greeted =>
              InFlight(s \o Reply(m), Msg("version", 0))
         /\ \A n : m = Msg("ping", n) => InFlight(s \o Reply(m), Msg("pong", n))
<1> DEFINE r == Reply(m)
<1>1. r \in Seq(Messages)
  BY Replies
<1>2. \A x : InFlight(s, x) \/ InFlight(r, x) => InFlight(s \o r, x)
  BY <1>1, Joined
<1>3. m = Msg("version", 0) => m.command = "version"
  BY MessageParts
<1>4. ASSUME m.command = "version"
      PROVE  InFlight(r, Msg("verack", 0)) /\ (~ node.greeted => InFlight(r, Msg("version", 0)))
  <2> DEFINE rest == << Msg("wtxidrelay", 0), Msg("sendaddrv2", 0), Msg("verack", 0) >>
             first == << Msg("version", 0) >>
  <2>1. r = (IF node.greeted THEN << >> ELSE first) \o rest
    BY <1>4 DEF Reply, Hello
  <2>2. rest \in Seq(Messages) /\ first \in Seq(Messages)
    BY MessageParts DEF Commands
  <2>3. InFlight(rest, Msg("verack", 0))
    <3>1. 3 \in DOMAIN rest /\ rest[3] = Msg("verack", 0)
      OBVIOUS
    <3> QED
      BY <3>1 DEF InFlight
  <2>4. InFlight(first, Msg("version", 0))
    <3>1. 1 \in DOMAIN first /\ first[1] = Msg("version", 0)
      OBVIOUS
    <3> QED
      BY <3>1 DEF InFlight
  <2> HIDE DEF rest, first, r
  <2>5. CASE node.greeted
    <3>1. r = rest
      BY <2>1, <2>2, <2>5
    <3> QED
      BY <2>3, <2>5, <3>1
  <2>6. CASE ~ node.greeted
    <3>1. r = first \o rest
      BY <2>1, <2>6
    <3> QED
      BY <2>2, <2>3, <2>4, <3>1, Joined
  <2> QED
    BY <2>5, <2>6
<1>5. ASSUME NEW n, m = Msg("ping", n) PROVE InFlight(r, Msg("pong", n))
  <2>1. m.command = "ping" /\ m.n = n
    BY <1>5, MessageParts
  <2>2. r = << Msg("pong", n) >>
    BY <2>1 DEF Reply
  <2>3. 1 \in DOMAIN << Msg("pong", n) >> /\ << Msg("pong", n) >>[1] = Msg("pong", n)
    OBVIOUS
  <2> QED
    BY <2>2, <2>3 DEF InFlight
<1> HIDE DEF r
<1>6. /\ \A x : InFlight(s, x) => InFlight(s \o r, x)
      /\ m = Msg("version", 0) => InFlight(s \o r, Msg("verack", 0))
      /\ m.command = "version" /\ ~ node.greeted => InFlight(s \o r, Msg("version", 0))
      /\ \A n : m = Msg("ping", n) => InFlight(s \o r, Msg("pong", n))
  BY <1>2, <1>3, <1>4, <1>5
<1> QED
  BY <1>6 DEF r

LEMMA UnderwayStart == ConnectionsInit => Underway
<1> SUFFICES ASSUME ConnectionsInit PROVE Underway
  OBVIOUS
<1>1. /\ conn.first = << >> /\ conn.last = << >> /\ node.faults = 0
      /\ node.stalled = FALSE /\ node.greeted = FALSE
  BY DEF ConnectionsInit, Nothing
<1> QED
  BY <1>1 DEF Underway, Greeted, Shaped, OnItsWay

\* A method begins with nothing to wait for that it does not ask for itself.
LEMMA MethodsUnderway ==
  ASSUME ConnectionsInductive, Underway, Methods
  PROVE  Underway'
<1>1. /\ UNCHANGED <<to_node, to_us, node>> /\ Idle /\ DOMAIN conn = ConnFields
      /\ conn.sends \in Nat /\ conn.ping_counter \in Nat
  BY DEF Methods, version_handshake, send, ping, send_and_recv, ConnectionsInductive, Wired
<1>2. CASE version_handshake
  <2>1. conn' = [conn EXCEPT !.method = "version_handshake", !.first = handshake_waits_for,
                             !.out = Hello, !.last = << Msg("verack", 0) >>]
        /\ conn.returned = None
    BY <1>2 DEF version_handshake, Begin
  <2>2. /\ conn'.method = "version_handshake" /\ conn'.first = handshake_waits_for
        /\ conn'.out = Hello /\ conn'.last = << Msg("verack", 0) >>
        /\ conn'.connection_type = conn.connection_type
    BY <1>1, <2>1 DEF ConnFields
  <2>3. Hello # << >> /\ Hello[1] = Msg("version", 0)
    BY DEF Hello
  <2>4. handshake_waits_for # << >> =>
          handshake_waits_for = << Msg("version", 0) >> /\ conn.connection_type = "Outbound"
    BY DEF handshake_waits_for, Nothing
  <2>5. ~ node.greeted \/ InFlight(to_us, Msg("version", 0))
    BY <1>1, <2>1 DEF Underway, Greeted, Greeting
  <2>6. "version_handshake" \notin Pings
    BY DEF Pings
  <2>7. Shaped'
    BY <2>2, <2>3, <2>4, <2>6 DEF Shaped
  <2>8. OnItsWay'
    BY <2>2, <2>3, <2>6 DEF OnItsWay, VerackComes
  <2> QED
    BY <1>1, <2>5, <2>7, <2>8 DEF Underway, Greeted
<1>3. CASE send
  <2>1. conn' = [conn EXCEPT !.method = "send", !.first = << >>, !.out = << Message >>,
                             !.last = << >>, !.sends = @ + 1]
    BY <1>1, <1>3 DEF send, Begin, Nothing, ConnFields
  <2>2. conn'.method = "send" /\ conn'.first = << >> /\ conn'.last = << >>
    BY <1>1, <2>1 DEF ConnFields
  <2>3. Shaped' /\ OnItsWay'
    BY <2>2 DEF Shaped, OnItsWay
  <2>4. Greeted'
    BY <2>2 DEF Greeted, Greeting, Idle
  <2> QED
    BY <1>1, <2>3, <2>4 DEF Underway
<1>4. CASE ping \/ send_and_recv
  <2>1. /\ conn'.method \in Pings /\ conn'.first = << >> /\ conn'.out # << >>
    <3>1. CASE ping
      <4>1. conn' = [conn EXCEPT !.method = "ping", !.first = << >>,
                                 !.out = << Msg("ping", Nonce) >>,
                                 !.last = << Msg("pong", Nonce) >>,
                                 !.ping_counter = @ + 1]
        BY <1>1, <3>1 DEF ping, Begin, Nothing, ConnFields
      <4> QED
        BY <1>1, <4>1 DEF ConnFields, Pings
    <3>2. CASE send_and_recv
      <4>1. conn' = [conn EXCEPT !.method = "send_and_recv", !.first = << >>,
                       !.out = << Message, Msg("ping", 0), Msg("ping", Nonce) >>,
                       !.last = << Msg("pong", Nonce) >>,
                       !.sends = @ + 1, !.ping_counter = @ + 1]
        BY <1>1, <3>2 DEF send_and_recv, Begin, Nothing, ConnFields
      <4>2. << Message, Msg("ping", 0), Msg("ping", Nonce) >> # << >>
        OBVIOUS
      <4> QED
        BY <1>1, <4>1, <4>2 DEF ConnFields, Pings
    <3> QED
      BY <1>4, <3>1, <3>2
  <2>2. conn'.method # "version_handshake" /\ conn'.method # "none"
    BY <2>1 DEF Pings
  <2>3. Shaped' /\ OnItsWay'
    BY <2>1, <2>2 DEF Shaped, OnItsWay, PongComes
  <2>4. Greeted'
    BY <2>1, <2>2 DEF Greeted, Greeting, Idle
  <2> QED
    BY <1>1, <2>3, <2>4 DEF Underway
<1> QED
  BY <1>2, <1>3, <1>4 DEF Methods

\* What is skipped is not what is waited for.
LEMMA ReceiveUnderway ==
  ASSUME ConnectionsInductive, Underway, Receive
  PROVE  Underway' /\ conn'.method = conn.method
<1> DEFINE h == Head(to_us)
<1>1. /\ Awaited # << >> /\ to_us # << >> /\ to_us' = Tail(to_us)
      /\ UNCHANGED <<to_node, node>> /\ DOMAIN conn = ConnFields /\ to_us \in Seq(Messages)
  BY DEF Receive, Nothing, ConnectionsInductive, Wired
<1>2. \A x : InFlight(to_us, x) => InFlight(to_us', x) \/ x = h
  BY <1>1, Taken
<1>3. \/ conn' = conn /\ h # Awaited[1]
      \/ conn' = [conn EXCEPT !.first = << >>] /\ conn.first # << >>
      \/ conn' = [conn EXCEPT !.last = << >>] /\ conn.first = << >>
  BY DEF Receive, Nothing, IsAwaited
<1>4. ~ Idle
  BY <1>1, IdleWaits DEF Awaited, Nothing
<1> HIDE DEF h
<1>5. CASE conn' = conn /\ h # Awaited[1] /\ conn.first # << >>
  <2>1. Awaited = conn.first /\ conn.first = << Msg("version", 0) >>
        /\ conn.out # << >> /\ conn.out[1] = Msg("version", 0)
        /\ conn.method = "version_handshake"
    BY <1>5 DEF Awaited, Nothing, Underway, Shaped
  <2>2. h # Msg("version", 0)
    BY <1>5, <2>1
  <2>3. Greeted'
    BY <1>1, <1>2, <1>5, <2>2 DEF Underway, Greeted, Greeting
  <2>4. Shaped'
    BY <1>5 DEF Underway, Shaped
  <2>5. OnItsWay'
    <3>1. "version_handshake" \notin Pings
      BY DEF Pings
    <3> QED
      BY <1>5, <2>1, <3>1 DEF OnItsWay, VerackComes
  <2> QED
    BY <1>1, <1>5, <2>3, <2>4, <2>5 DEF Underway
<1>6. CASE conn' = conn /\ h # Awaited[1] /\ conn.first = << >>
  <2>1. Awaited = conn.last /\ conn.out = << >> /\ conn.last # << >>
    BY <1>1, <1>6 DEF Awaited, Nothing
  <2>2. Greeted' /\ Shaped'
    BY <1>4, <1>6 DEF Underway, Greeted, Greeting, Shaped, Idle
  <2>3. ASSUME conn.method = "version_handshake", VerackComes PROVE VerackComes'
    <3>1. conn.last = << Msg("verack", 0) >>
      BY <2>1, <2>3 DEF Underway, Shaped, Pings
    <3>2. h # Msg("verack", 0)
      BY <1>6, <2>1, <3>1
    <3> QED
      BY <1>1, <1>2, <1>6, <2>1, <2>3, <3>2 DEF VerackComes
  <2>4. ASSUME conn.method \in Pings, PongComes PROVE PongComes'
    <3>1. conn.last = << Msg("pong", Counter) >>
      BY <2>1, <2>4 DEF ConnectionsInductive, Methodical
    <3>2. h # Msg("pong", Counter) /\ Counter' = Counter
      BY <1>6, <2>1, <3>1 DEF Counter
    <3> QED
      BY <1>1, <1>2, <1>6, <2>1, <2>4, <3>2 DEF PongComes
  <2>5. OnItsWay'
    BY <1>1, <1>6, <2>3, <2>4 DEF Underway, OnItsWay
  <2> QED
    BY <1>1, <1>6, <2>2, <2>5 DEF Underway
<1>7. CASE conn' = [conn EXCEPT !.first = << >>] /\ conn.first # << >>
  <2>1. /\ conn'.first = << >> /\ conn'.method = conn.method /\ conn'.last = conn.last
        /\ conn'.out = conn.out
    BY <1>1, <1>7 DEF ConnFields
  <2>2. /\ conn.method = "version_handshake" /\ conn.method \notin Pings
        /\ conn.out # << >> /\ conn.out[1] = Msg("version", 0)
    BY <1>7 DEF Underway, Shaped, Pings
  <2>3. Greeted'
    BY <1>4, <2>1 DEF Greeted, Greeting, Idle
  <2>4. Shaped' /\ OnItsWay'
    BY <2>1, <2>2 DEF Underway, Shaped, OnItsWay, VerackComes
  <2> QED
    BY <1>1, <2>1, <2>3, <2>4 DEF Underway
<1>8. CASE conn' = [conn EXCEPT !.last = << >>] /\ conn.first = << >>
  <2>1. conn'.first = << >> /\ conn'.method = conn.method /\ conn'.last = << >>
    BY <1>1, <1>8 DEF ConnFields
  <2>2. Greeted' /\ Shaped' /\ OnItsWay'
    BY <1>4, <2>1 DEF Greeted, Greeting, Idle, Shaped, OnItsWay
  <2> QED
    BY <1>1, <2>1, <2>2 DEF Underway
<1> QED
  BY <1>3, <1>5, <1>6, <1>7, <1>8

\* What is written is on its way.
LEMMA WriteUnderway ==
  ASSUME ConnectionsInductive, Underway, Write
  PROVE  Underway' /\ conn'.method = conn.method
<1> DEFINE h == Head(conn.out)
<1>1. /\ conn.first = << >> /\ conn.out # << >> /\ UNCHANGED <<to_us, node>>
      /\ to_node' = Append(to_node, h)
      /\ conn'.method = conn.method /\ conn'.out = Tail(conn.out)
      /\ conn'.first = conn.first /\ conn'.last = conn.last
      /\ conn'.ping_counter = conn.ping_counter
      /\ conn.out \in Seq(Messages) /\ to_node \in Seq(Messages)
  BY DEF Write, Writing, Nothing, ConnectionsInductive, Wired, ConnFields
<1>2. h = conn.out[1] /\ h \in Messages /\ Len(conn'.out) = Len(conn.out) - 1
      /\ conn'.out \in Seq(Messages) /\ Len(conn.out) \in Nat
  BY <1>1, Taken
<1>3. \A x : InFlight(to_node', x) <=> InFlight(to_node, x) \/ x = h
  BY <1>1, <1>2, Appended
<1>4. conn.method # "none" /\ Counter' = Counter
  BY <1>1 DEF ConnectionsInductive, Methodical, Idle, Counter
<1> HIDE DEF h
<1>5. Greeted' /\ Shaped'
  BY <1>1, <1>4 DEF Underway, Greeted, Greeting, Shaped, Idle
<1>6. VerackComes => VerackComes'
  BY <1>1, <1>2, <1>3 DEF VerackComes
<1>7. ASSUME conn.method \in Pings, conn.last # << >> PROVE PongComes'
  <2>1. CASE conn'.out # << >>
    BY <2>1 DEF PongComes
  <2>2. CASE conn'.out = << >>
    <3>1. Len(conn.out) = 1
      <4> DEFINE before == Len(conn.out)
                 after == Len(conn'.out)
      <4>1. after = 0
        BY <2>2
      <4>2. after = before - 1 /\ before \in Nat
        BY <1>2
      <4> HIDE DEF before, after
      <4>3. before = 1
        BY <4>1, <4>2
      <4> QED
        BY <4>3 DEF before
    <3>2. conn.out[Len(conn.out)] = Msg("ping", Counter)
      BY <1>1, <1>7 DEF ConnectionsInductive, Methodical
    <3>3. h = Msg("ping", Counter)
      BY <1>2, <3>1, <3>2
    <3> QED
      BY <1>3, <1>4, <3>3 DEF PongComes
  <2> QED
    BY <2>1, <2>2
<1>8. OnItsWay'
  BY <1>1, <1>6, <1>7 DEF Underway, OnItsWay
<1> QED
  BY <1>1, <1>5, <1>8 DEF Underway

\* A method that has returned waits for nothing.
LEMMA ReturnUnderway ==
  ASSUME ConnectionsInductive, Underway, NEW outcome, Return(outcome), UNCHANGED node, ~ Idle
  PROVE  Underway' /\ conn'.returned.outcome = outcome
<1>1. /\ conn'.method = "none" /\ conn'.first = << >> /\ conn'.last = << >>
      /\ conn'.returned = [method |-> conn.method, outcome |-> outcome]
  BY DEF Return, Nothing, ConnectionsInductive, Wired, ConnFields
<1>2. conn'.returned # None
  BY <1>1 DEF None, Idle
<1>3. Greeted' /\ Shaped' /\ OnItsWay'
  BY <1>1, <1>2 DEF Greeted, Greeting, Shaped, OnItsWay
<1> QED
  BY <1>1, <1>3 DEF Underway

\* What is lost is lost to a fault.
LEMMA LossUnderway ==
  ASSUME ConnectionsInductive, Underway, Writing, conn' = [conn EXCEPT !.out = Tail(@)],
         UNCHANGED <<to_node, to_us, node>>, node.gone
  PROVE  Underway' /\ conn'.method = conn.method
<1>1. /\ conn'.method = conn.method /\ conn'.first = conn.first /\ conn'.last = conn.last
      /\ conn.first = << >> /\ conn.out # << >>
  BY DEF Writing, Nothing, ConnectionsInductive, Wired, ConnFields
<1>2. conn.method # "none"
  BY <1>1 DEF ConnectionsInductive, Methodical, Idle
<1>3. Greeted' /\ Shaped' /\ OnItsWay'
  BY <1>1, <1>2 DEF Underway, Greeted, Greeting, Shaped, OnItsWay, Idle
<1> QED
  BY <1>1, <1>3 DEF Underway

\* A step of the node that adds to what is on its way to us, and takes nothing
\* from what is on its way to the node without an answer.
LEMMA NodeAdds ==
  ASSUME ConnectionsInductive, Underway, UNCHANGED conn,
         \A x : InFlight(to_us, x) => InFlight(to_us', x),
         \A x : InFlight(to_node, x) => \/ InFlight(to_node', x)
                                        \/ /\ x = Msg("version", 0) => InFlight(to_us', Msg("verack", 0))
                                           /\ \A n : x = Msg("ping", n) => InFlight(to_us', Msg("pong", n)),
         node'.greeted => node.greeted \/ InFlight(to_us', Msg("version", 0)),
         node'.faults \in Nat, node'.stalled => node'.faults > 0,
         node'.faults = 0 /\ ~ node'.gone => node.faults = 0 /\ ~ node.gone
  PROVE  Underway'
<1>1. Counter' = Counter
  BY DEF Counter
<1>2. Greeted' /\ Shaped'
  BY DEF Underway, Greeted, Greeting, Shaped, Idle
<1>3. VerackComes => VerackComes'
  BY DEF VerackComes
<1>4. PongComes => PongComes'
  BY <1>1 DEF PongComes
<1>5. OnItsWay'
  BY <1>3, <1>4 DEF Underway, OnItsWay
<1> QED
  BY <1>2, <1>5 DEF Underway

LEMMA NodeUnderway ==
  ASSUME ConnectionsInductive, Underway, Works \/ SendChat \/ Stall \/ Resume \/ Disconnect
  PROVE  Underway'
<1>1. /\ to_us \in Seq(Messages) /\ to_node \in Seq(Messages)
      /\ DOMAIN node = {"greeted", "processed", "stalled", "gone", "faults", "chat"}
      /\ node.faults \in Nat /\ (node.stalled => node.faults > 0)
  BY DEF ConnectionsInductive, Wired, Underway
<1>2. CASE Greet \/ SendChat
  <2>1. PICK c \in {"version", "inv"} : to_us' = Append(to_us, Msg(c, 0))
                                        /\ (Greet => c = "version")
    BY <1>2 DEF Greet, SendChat, Chat
  <2>2. Msg(c, 0) \in Messages
    BY MessageParts DEF Commands
  <2>3. \A x : InFlight(to_us', x) <=> InFlight(to_us, x) \/ x = Msg(c, 0)
    BY <1>1, <2>1, <2>2, Appended
  <2>4. /\ UNCHANGED <<conn, to_node>> /\ node'.stalled = node.stalled
        /\ node'.faults = node.faults /\ node'.gone = node.gone
        /\ (SendChat /\ ~ Greet => node'.greeted = node.greeted)
    BY <1>1, <1>2 DEF Greet, SendChat
  <2>5. node'.greeted => node.greeted \/ InFlight(to_us', Msg("version", 0))
    BY <1>2, <2>1, <2>3, <2>4
  <2> QED
    BY <1>1, <2>3, <2>4, <2>5, NodeAdds
<1>3. CASE Stall \/ Resume \/ Disconnect
  <2>1. UNCHANGED <<conn, to_node, to_us>> /\ node'.greeted = node.greeted
    BY <1>1, <1>3 DEF Stall, Resume, Disconnect
  <2>2. /\ node'.faults \in Nat /\ (node'.stalled => node'.faults > 0)
        /\ (node'.faults = 0 /\ ~ node'.gone => node.faults = 0 /\ ~ node.gone)
    <3>1. CASE Stall \/ Disconnect
      <4>1. node'.faults = node.faults + 1
        BY <1>1, <3>1 DEF Stall, Disconnect
      <4> QED
        BY <1>1, <4>1
    <3>2. CASE Resume
      <4>1. node'.faults = node.faults /\ node'.gone = node.gone /\ ~ node'.stalled
        BY <1>1, <3>2 DEF Resume
      <4> QED
        BY <1>1, <4>1
    <3> QED
      BY <1>3, <3>1, <3>2
  <2> QED
    BY <2>1, <2>2, NodeAdds
<1>4. CASE Process
  <2> DEFINE m == Head(to_node)
  <2>1. /\ to_node # << >> /\ UNCHANGED conn /\ ~ node.gone
        /\ to_node' = Tail(to_node) /\ to_us' = to_us \o Reply(m)
        /\ node'.greeted = (node.greeted \/ m.command = "version")
        /\ node'.faults = node.faults /\ node'.stalled = node.stalled
    BY <1>1, <1>4 DEF Process
  <2>2. m \in Messages /\ \A x : InFlight(to_node, x) => InFlight(to_node', x) \/ x = m
    BY <1>1, <2>1, Taken
  <2> HIDE DEF m
  <2>3. /\ \A x : InFlight(to_us, x) => InFlight(to_us', x)
        /\ m = Msg("version", 0) => InFlight(to_us', Msg("verack", 0))
        /\ m.command = "version" /\ ~ node.greeted => InFlight(to_us', Msg("version", 0))
        /\ \A n : m = Msg("ping", n) => InFlight(to_us', Msg("pong", n))
    BY <1>1, <2>1, <2>2, Answered
  <2> QED
    BY <1>1, <2>1, <2>2, <2>3, NodeAdds
<1> QED
  BY <1>2, <1>3, <1>4 DEF Works

\* A read that times out had something to wait for that nobody was to send.
LEMMA ReadTimesOut ==
  ASSUME ConnectionsInductive, Underway, ReadTimeout
  PROVE  node.faults > 0 \/ node.gone
<1> SUFFICES ASSUME ~ (node.faults > 0), ~ node.gone PROVE FALSE
  OBVIOUS
<1>1. /\ Awaited # << >> /\ to_us = << >> /\ NodeSilent
      /\ node.faults = 0 /\ ~ node.stalled
  BY DEF ReadTimeout, Nothing, Underway
<1>2. \A x : ~ InFlight(to_us, x)
  BY <1>1 DEF InFlight
<1>3. to_node = << >> /\ (node.greeted \/ conn.connection_type = "Inbound")
  BY <1>1 DEF NodeSilent
<1>4. \A x : ~ InFlight(to_node, x)
  BY <1>3 DEF InFlight
<1>5. CASE conn.first # << >>
  <2>1. ~ node.greeted /\ conn.connection_type = "Outbound"
    BY <1>2, <1>5 DEF Underway, Greeted, Greeting, Shaped
  <2> QED
    BY <1>3, <2>1
<1>6. CASE conn.first = << >>
  <2>1. conn.out = << >> /\ conn.last # << >>
    BY <1>1, <1>6 DEF Awaited, Nothing
  <2>2. ~ VerackComes /\ ~ PongComes
    BY <1>2, <1>4, <2>1 DEF VerackComes, PongComes
  <2>3. conn.method = "version_handshake" \/ conn.method \in Pings
    BY <2>1 DEF Underway, Shaped
  <2> QED
    BY <1>1, <2>1, <2>2, <2>3 DEF Underway, OnItsWay
<1> QED
  BY <1>5, <1>6

\* What the workload's end of the connection does, and how it fails.
LEMMA TransportUnderway ==
  ASSUME ConnectionsInductive, Underway, Transport
  PROVE  /\ Underway'
         /\ ~ Idle /\ conn'.method = "none" /\ conn'.returned.outcome = "error" =>
              \/ node.faults > 0 \/ node.gone
              \/ Len(to_us) >= Capacity /\ Len(to_node) >= Capacity
<1>i. Awaited # << >> \/ Writing => ~ Idle
  BY IdleWaits DEF Awaited, Writing, Nothing
<1>1. CASE Receive
  BY <1>1, ReceiveUnderway DEF Idle
<1>2. CASE Write
  BY <1>2, WriteUnderway DEF Idle
<1>3. CASE Finish
  <2>1. Underway' /\ conn'.returned.outcome = "ok"
    BY <1>3, ReturnUnderway DEF Finish
  <2> QED
    BY <2>1
<1>4. CASE ReadTimeout
  <2>1. Underway'
    BY <1>4, <1>i, ReturnUnderway DEF ReadTimeout, Nothing
  <2> QED
    BY <1>4, <2>1, ReadTimesOut
<1>5. CASE WriteTimeout
  <2>1. Underway'
    BY <1>5, <1>i, ReturnUnderway DEF WriteTimeout
  <2>2. node.stalled \/ Len(to_us) >= Capacity
    BY <1>5 DEF WriteTimeout, NodeBlocked
  <2>3. node.stalled => node.faults > 0
    BY DEF Underway
  <2> QED
    BY <1>5, <2>1, <2>2, <2>3 DEF WriteTimeout
<1>6. CASE WriteFails
  <2>1. node.gone /\ Writing /\ UNCHANGED <<to_node, to_us, node>>
    BY <1>6 DEF WriteFails
  <2>2. CASE Return("error")
    BY <1>i, <2>1, <2>2, ReturnUnderway
  <2>3. CASE conn' = [conn EXCEPT !.out = Tail(@)]
    BY <2>1, <2>3, LossUnderway
  <2> QED
    BY <1>6, <2>1, <2>2, <2>3 DEF WriteFails
<1> QED
  BY <1>1, <1>2, <1>3, <1>4, <1>5, <1>6 DEF Transport

\* The two invariants of a connection.
LEMMA ConnectionsInvariants == ConnectionsSpec => [](ConnectionsInductive /\ Underway)
<1>1. ConnectionsInductive /\ Underway /\ [ConnectionsNext]_connection_vars
        => (ConnectionsInductive /\ Underway)'
  <2> SUFFICES ASSUME ConnectionsInductive, Underway, [ConnectionsNext]_connection_vars
               PROVE  ConnectionsInductive' /\ Underway'
    OBVIOUS
  <2>1. CASE UNCHANGED connection_vars
    <3>1. ConnectionsInductive'
      BY <2>1 DEF connection_vars, ConnectionsInductive, Wired, Delivered, Fresh, Ordered,
                  Methodical, PongMeansProcessed, Unwritten, AwaitsPong, Counter, Idle
    <3>2. Underway'
      BY <2>1 DEF connection_vars, Underway, Greeted, Greeting, Shaped, OnItsWay,
                  VerackComes, PongComes, Counter, Idle
    <3> QED
      BY <3>1, <3>2
  <2>2. CASE Methods
    BY <2>2, QuietMethods, PingMethods, MethodsUnderway DEF Methods
  <2>3. CASE Transport
    BY <2>3, TransportStep, TransportUnderway
  <2>4. CASE Works \/ SendChat \/ Stall \/ Resume \/ Disconnect
    BY <2>4, NodeStep, NodeUnderway
  <2> QED
    BY <2>1, <2>2, <2>3, <2>4 DEF ConnectionsNext
<1> QED
  BY <1>1, ConnectionsStart, UnderwayStart, PTL DEF ConnectionsSpec

\* When ping or send_and_recv returns with success, the node has processed all
\* that was sent before, for every number of messages, pings, stalls and torn
\* writes, and whatever the node sends on its own.
THEOREM PongMeansAllProcessed == ConnectionsSpec => []PongMeansProcessed
<1>1. ConnectionsInductive => PongMeansProcessed
  BY DEF ConnectionsInductive
<1> QED
  BY <1>1, ConnectionsInvariants, PTL

\* Workload and node never wait for each other: a method of a connection of
\* either type fails only after the node stalled or disconnected, after a write
\* was cut off, or with full buffers in both directions.
THEOREM FailuresHaveAReason == ConnectionsSpec => SilenceHasAReason
<1>1. ConnectionsInductive /\ Underway /\ [ConnectionsNext]_connection_vars
        => [~ Idle /\ conn'.method = "none" /\ conn'.returned.outcome = "error" =>
              \/ node.faults > 0 \/ node.gone
              \/ Len(to_us) >= Capacity /\ Len(to_node) >= Capacity]_connection_vars
  <2> SUFFICES ASSUME ConnectionsInductive, Underway, ConnectionsNext,
                      ~ Idle, conn'.method = "none", conn'.returned.outcome = "error"
               PROVE  \/ node.faults > 0 \/ node.gone
                      \/ Len(to_us) >= Capacity /\ Len(to_node) >= Capacity
    OBVIOUS
  <2>1. ~ Methods
    BY DEF Methods, version_handshake, send, ping, send_and_recv
  <2>2. CASE Transport
    BY <2>2, TransportUnderway
  <2>3. CASE Works \/ SendChat \/ Stall \/ Resume \/ Disconnect
    <3>1. UNCHANGED conn
      BY <2>3 DEF Works, Greet, Process, SendChat, Stall, Resume, Disconnect
    <3> QED
      BY <3>1 DEF Idle
  <2> QED
    BY <2>1, <2>2, <2>3 DEF ConnectionsNext
<1> QED
  BY <1>1, ConnectionsInvariants, PTL DEF ConnectionsSpec, SilenceHasAReason

-----------------------------------------------------------------------------
\* The service.

Connecting == {"dial", "accept", "handshake"}

\* The steps of each kind of request.
StepsOf(method) ==
  CASE method = "init" -> {"init", "build"} \cup Connecting
    [] method = "mutate" -> {"mutate"}
    [] method = "compile" -> {"compile", "reconnect"} \cup Connecting

\* Is a thread in the middle of init, with connections already cleared?
MidInit ==
  \/ service.step = "build"
  \/ service.step \in Connecting /\ call[service.holder].method = "init"

Shape ==
  /\ call \in [Calls -> [status : {"none", "waiting", "success", "error"}, method : Method]]
  /\ DOMAIN thread = Calls
  /\ DOMAIN service = DOMAIN NewService
  /\ service.program \in Nat /\ service.inits \in Nat
  /\ service.connections \in Seq({"alive", "dead"})
  /\ DOMAIN world = {"dial", "faults", "late", "restarted"}

Clients ==
  /\ \A c \in Inits : call[c].method = "init"
  /\ \A d \in Drivers : call[d].status # "none" => call[d].method # "init" /\ Ready
  /\ \A c \in Calls : thread[c] # "none" => call[c].status # "none"

Steps ==
  \/ service.holder = NoOne /\ service.step = "none"
  \/ /\ service.holder \in Calls
     /\ call[service.holder].status # "none"
     /\ service.step \in StepsOf(call[service.holder].method)

Progress ==
  /\ service.step = "build" => Len(service.connections) = num_connections
  /\ MidInit /\ service.step # "build" =>
       Len(service.connections) = service.index - 1 /\ service.index \in 1 .. num_connections

Undisturbed ==
  ~ world.late =>
    /\ ~ Ready => service.metadata = 0
    /\ MidInit => ~ Ready

Inductive ==
  Shape /\ Clients /\ Steps /\ Progress /\ Undisturbed /\ OnlyLateInitsHurt

USE IrServiceAssumption

-----------------------------------------------------------------------------
\* A service that has just started has nothing to go wrong.
LEMMA NewServiceIsFine ==
  /\ DOMAIN NewService = {"holder", "poisoned", "program", "inits", "metadata",
                          "connections", "step", "index", "failed"}
  /\ NewService.holder = NoOne /\ NewService.step = "none" /\ ~ NewService.poisoned
  /\ NewService.program = 0 /\ NewService.inits = 0 /\ NewService.index = 0
  /\ NewService.metadata = 0 /\ NewService.connections = << >>
  /\ << >> \in Seq({"alive", "dead"})
  BY DEF NewService

\* Nobody has called anything at the beginning.
LEMMA InductiveInit == ServiceInit => Inductive
<1> SUFFICES ASSUME ServiceInit PROVE Inductive
  OBVIOUS
<1>1. Shape
  BY NewServiceIsFine DEF ServiceInit, Shape, Method
<1>2. ~ Ready
  BY DEF ServiceInit, Ready, Calls
<1>3. Clients /\ Steps
  BY NewServiceIsFine DEF ServiceInit, Clients, Steps, Calls
<1>4. ~ MidInit
  BY NewServiceIsFine DEF ServiceInit, MidInit, Connecting
<1> QED
  BY <1>1, <1>2, <1>3, <1>4, NewServiceIsFine
  DEF Inductive, ServiceInit, Progress, Undisturbed, OnlyLateInitsHurt, MidInit

-----------------------------------------------------------------------------
\* What an answer does to the calls: at most its own one ends.
LEMMA Answering ==
  ASSUME Shape, Clients, NEW c \in Calls, NEW status \in {"success", "error"},
         Answer(c, status), call[c].status # "none"
  PROVE  /\ call' \in [Calls -> [status : {"none", "waiting", "success", "error"},
                                 method : Method]]
         /\ \A x \in Calls : /\ call'[x].method = call[x].method
                             /\ (call'[x].status = "none") <=> (call[x].status = "none")
                             /\ call[x].status = "success" => call'[x].status = "success"
                             /\ x # c => call'[x] = call[x]
         /\ status = "error" /\ call'[c].status = "success" => call[c].status = "success"
  BY DEF Shape, Answer

\* An answer other than the success of an init leaves Ready as it is.
LEMMA ReadyStays ==
  ASSUME Shape, Clients, NEW c \in Calls, NEW status \in {"success", "error"},
         Answer(c, status), call[c].status # "none",
         status = "error" \/ c \notin Inits
  PROVE  Ready' = Ready
<1>1. \A i \in Inits : call'[i].status = "success" <=> call[i].status = "success"
  BY Answering DEF Calls
<1> QED
  BY <1>1 DEF Ready

\* Clients only looks at the calls, and holds on while they come to an end.
LEMMA ClientsStay ==
  ASSUME Shape, Clients, NEW c \in Calls, NEW status \in {"success", "error"},
         Answer(c, status), call[c].status # "none",
         \A x \in Calls : thread'[x] = thread[x] \/ x = c
  PROVE  Clients'
<1>1. Ready => Ready'
  BY Answering DEF Ready, Calls
<1> QED
  BY <1>1, Answering DEF Clients, Calls

\* A mutex that is released leaves no step behind.
LEMMA Unlocking ==
  ASSUME Inductive, NEW c \in Calls, NEW step, Holding(c, step),
         NEW state, DOMAIN state = DOMAIN NewService,
         state.program \in Nat, state.inits \in Nat,
         state.connections \in Seq({"alive", "dead"}),
         NEW status \in {"success", "error"}, Unlock(c, state, status),
         world'.late = world.late, DOMAIN world' = DOMAIN world
  PROVE  /\ Shape' /\ Clients' /\ Steps' /\ Progress' /\ ~ MidInit'
         /\ service'.poisoned = state.poisoned /\ service'.program = state.program
         /\ service'.metadata = state.metadata
         /\ service'.connections = state.connections
         /\ Answer(c, status) /\ call[c].status # "none"
<1>1. service' = [state EXCEPT !.holder = NoOne, !.step = "none", !.index = 0,
                               !.failed = << >>]
      /\ thread' = [thread EXCEPT ![c] = "done"] /\ Answer(c, status)
  BY DEF Unlock
<1>2. /\ DOMAIN service' = DOMAIN NewService /\ service'.index = 0
      /\ service'.holder = NoOne /\ service'.step = "none"
      /\ service'.poisoned = state.poisoned /\ service'.program = state.program
      /\ service'.metadata = state.metadata /\ service'.inits = state.inits
      /\ service'.connections = state.connections
  BY <1>1, NewServiceIsFine
<1>3. call[c].status # "none"
  BY DEF Inductive, Steps, Holding, NoOne, Calls
<1>4. Clients'
  BY <1>1, <1>3, ClientsStay DEF Inductive, Shape
<1>5. Shape'
  BY <1>1, <1>2, <1>3, Answering DEF Inductive, Shape
<1> QED
  BY <1>1, <1>2, <1>3, <1>4, <1>5 DEF Steps, Progress, MidInit, Connecting

\* A request that ends without a success of init, having changed nothing.
LEMMA NothingChanged ==
  ASSUME Inductive, NEW c \in Calls, NEW step, Holding(c, step),
         NEW status \in {"success", "error"}, Unlock(c, service, status),
         status = "error" \/ c \notin Inits,
         world'.late = world.late, world'.restarted = world.restarted,
         DOMAIN world' = DOMAIN world
  PROVE  Inductive'
<1>1. /\ Shape' /\ Clients' /\ Steps' /\ Progress' /\ ~ MidInit'
      /\ service'.poisoned = service.poisoned /\ service'.program = service.program
      /\ service'.metadata = service.metadata
      /\ service'.connections = service.connections
      /\ Answer(c, status) /\ call[c].status # "none"
  BY Unlocking DEF Inductive, Shape
<1>2. Ready' = Ready
  BY <1>1, ReadyStays DEF Inductive
<1> QED
  BY <1>1, <1>2 DEF Inductive, Undisturbed, OnlyLateInitsHurt

\* The step of the holder of the mutex tells what its request is.
LEMMA StepTellsMethod ==
  ASSUME Inductive, NEW c \in Calls, NEW step, Holding(c, step)
  PROVE  /\ call[c].status # "none" /\ step \in StepsOf(call[c].method)
         /\ call[c].method \in Method
         /\ c = service.holder /\ service.holder # NoOne
         /\ (c \in Inits) <=> (call[c].method = "init")
  BY DEF Inductive, Steps, Holding, NoOne, Calls, Shape, Clients

\* A step of a request that goes on with the mutex: harmless if it makes the
\* progress that it should, and either belongs to no init, or to one in
\* progress, or is the first of one and notes whether it is late.
LEMMA Advancing ==
  ASSUME Inductive, NEW c \in Calls, NEW step, Holding(c, step),
         UNCHANGED <<call, thread>>,
         DOMAIN service' = DOMAIN service, DOMAIN world' = DOMAIN world,
         service'.holder = c, service'.step \in StepsOf(call[c].method),
         service'.poisoned = service.poisoned, service'.program = service.program,
         service'.inits = service.inits, service'.metadata = service.metadata,
         service'.connections \in Seq({"alive", "dead"}),
         world'.restarted = world.restarted,
         Progress',
         \/ /\ call[c].method # "init" \/ MidInit
            /\ world'.late = world.late
            /\ call[c].method # "init" =>
                 Len(service'.connections) = Len(service.connections)
         \/ world'.late = (world.late \/ Ready)
  PROVE  Inductive'
<1>1. Shape' /\ Clients' /\ Steps' /\ Ready' = Ready
  BY StepTellsMethod DEF Inductive, Shape, Clients, Steps, Ready
<1>2. MidInit' => call[c].method = "init"
  BY StepTellsMethod DEF MidInit, StepsOf, Connecting, Method
<1>3. Undisturbed' /\ OnlyLateInitsHurt'
  BY <1>1, <1>2, StepTellsMethod DEF Inductive, Undisturbed, OnlyLateInitsHurt
<1> QED
  BY <1>1, <1>3 DEF Inductive

\* A connection that is replaced leaves the others where they are.
Replaced(s, k, v) == [s EXCEPT ![k] = v]

LEMMA Replacing ==
  ASSUME NEW S, NEW s \in Seq(S), NEW k, NEW v \in S
  PROVE  Replaced(s, k, v) \in Seq(S) /\ Len(Replaced(s, k, v)) = Len(s)
<1>1. CASE k \in 1 .. Len(s)
  BY <1>1, ExceptSeq DEF Replaced
<1>2. CASE k \notin 1 .. Len(s)
  <2>1. DOMAIN s = 1 .. Len(s) /\ s = [i \in DOMAIN s |-> s[i]]
    OBVIOUS
  <2>2. Replaced(s, k, v) = s
    BY <1>2, <2>1 DEF Replaced
  <2> QED
    BY <2>2
<1> QED
  BY <1>1, <1>2

\* Making a connection, for init or for compile.
LEMMA ConnectSteps ==
  ASSUME Inductive, NEW c \in Calls, Dial(c) \/ Accept(c) \/ Connected(c) \/ ConnectFails(c)
  PROVE  Inductive'
<1>1. CASE Dial(c) \/ Accept(c)
  <2>1. /\ service.step \in Connecting /\ service.step # "build" /\ Holding(c, service.step)
        /\ service'.step \in Connecting /\ service'.step # "build"
        /\ service' = [service EXCEPT !.step = service'.step]
        /\ UNCHANGED <<call, thread>>
    <3>1. CASE Dial(c)
      <4>1. /\ service.holder = c /\ service.step = "dial" /\ UNCHANGED <<call, thread>>
            /\ service' = [service EXCEPT !.step = IF Outbound(service.index)
                                                  THEN "accept" ELSE "handshake"]
        BY <3>1 DEF Dial, Holding
      <4>2. service'.step = IF Outbound(service.index) THEN "accept" ELSE "handshake"
        BY <4>1 DEF Inductive, Shape, NewService
      <4> QED
        BY <4>1, <4>2 DEF Holding, Connecting
    <3>2. CASE Accept(c)
      <4>1. /\ service.holder = c /\ service.step = "accept" /\ UNCHANGED <<call, thread>>
            /\ service' = [service EXCEPT !.step = "handshake"]
        BY <3>2 DEF Accept, Holding
      <4>2. service'.step = "handshake"
        BY <4>1 DEF Inductive, Shape, NewService
      <4> QED
        BY <4>1, <4>2 DEF Holding, Connecting
    <3> QED
      BY <1>1, <3>1, <3>2
  <2>2. /\ DOMAIN world' = DOMAIN world /\ world'.restarted = world.restarted
        /\ world'.late = world.late
    BY <1>1 DEF Dial, Accept, Inductive, Shape
  <2>3. /\ DOMAIN service' = DOMAIN service
        /\ service'.holder = c /\ service'.index = service.index
        /\ service'.poisoned = service.poisoned /\ service'.program = service.program
        /\ service'.inits = service.inits /\ service'.metadata = service.metadata
        /\ service'.connections = service.connections
    BY <2>1 DEF Inductive, Shape, Holding, NewService
  <2>4. call[c].method = "init" \/ call[c].method = "compile"
    BY <2>1, StepTellsMethod DEF StepsOf, Connecting, Method
  <2>5. service'.step \in StepsOf(call[c].method)
    BY <2>1, <2>4 DEF StepsOf
  <2>6. MidInit \/ call[c].method # "init"
    BY <2>1, StepTellsMethod DEF MidInit
  <2>7. Progress'
    BY <2>1, <2>3, StepTellsMethod DEF Inductive, Progress, MidInit
  <2> QED
    BY <2>1, <2>2, <2>3, <2>5, <2>6, <2>7, Advancing DEF Inductive, Shape
<1>2. CASE Connected(c)
  <2>1. /\ Holding(c, "handshake") /\ UNCHANGED <<call, thread, world>>
        /\ "handshake" \in Connecting
    BY <1>2 DEF Connected, Connecting
  <2>2. c = service.holder /\ (call[c].method = "init" \/ call[c].method = "compile")
    BY <2>1, StepTellsMethod DEF StepsOf, Connecting, Method
  <2>3. CASE call[c].method = "compile"
    <3>1. service' = [service EXCEPT !.connections[service.index] = "alive",
                                     !.step = "reconnect"]
      BY <1>2, <2>2, <2>3 DEF Connected, Reconnecting
    <3>2. /\ DOMAIN service' = DOMAIN service
          /\ service'.holder = c /\ service'.step = "reconnect"
          /\ service'.index = service.index
          /\ service'.poisoned = service.poisoned /\ service'.program = service.program
          /\ service'.inits = service.inits /\ service'.metadata = service.metadata
          /\ service'.connections = [service.connections EXCEPT ![service.index] = "alive"]
      BY <3>1, <2>2 DEF Inductive, Shape, NewService
    <3>3. /\ service'.connections \in Seq({"alive", "dead"})
          /\ Len(service'.connections) = Len(service.connections)
      <4>1. service.connections \in Seq({"alive", "dead"}) /\ "alive" \in {"alive", "dead"}
        BY DEF Inductive, Shape
      <4>2. service'.connections = Replaced(service.connections, service.index, "alive")
        BY <3>2 DEF Replaced
      <4> QED
        BY <4>1, <4>2, Replacing
    <3>4. service'.step \in StepsOf(call[c].method)
      BY <3>2, <2>3 DEF StepsOf
    <3>5. Progress'
      BY <3>2 DEF Progress, MidInit, Connecting
    <3> QED
      BY <2>1, <2>3, <3>2, <3>3, <3>4, <3>5, Advancing DEF Inductive, Shape
  <2>4. CASE call[c].method = "init"
    <3>1. service' = [service EXCEPT !.connections = Append(@, "alive"),
                        !.index = @ + 1,
                        !.step = IF service.index = num_connections
                                 THEN "build" ELSE "dial"]
      BY <1>2, <2>2, <2>4 DEF Connected, Reconnecting
    <3>2. /\ DOMAIN service' = DOMAIN service
          /\ service'.holder = c
          /\ service'.step = IF service.index = num_connections THEN "build" ELSE "dial"
          /\ service'.index = service.index + 1
          /\ service'.poisoned = service.poisoned /\ service'.program = service.program
          /\ service'.inits = service.inits /\ service'.metadata = service.metadata
          /\ service'.connections = Append(service.connections, "alive")
      BY <3>1, <2>2 DEF Inductive, Shape, NewService
    <3>3. /\ service'.connections \in Seq({"alive", "dead"})
          /\ Len(service'.connections) = Len(service.connections) + 1
      BY <3>2 DEF Inductive, Shape
    <3>4. service'.step \in StepsOf(call[c].method)
      BY <3>2, <2>4 DEF StepsOf, Connecting
    <3>5. MidInit /\ service.step # "build"
      BY <2>1, <2>2, <2>4 DEF MidInit, Holding
    <3>6. Len(service.connections) = service.index - 1 /\ service.index \in 1 .. num_connections
      BY <3>5 DEF Inductive, Progress
    <3>7. Progress'
      BY <3>2, <3>3, <3>6 DEF Progress, IrServiceAssumption
    <3> QED
      BY <2>1, <2>4, <3>2, <3>3, <3>4, <3>5, <3>7, Advancing DEF Inductive, Shape
  <2> QED
    BY <2>2, <2>3, <2>4
<1>3. CASE ConnectFails(c)
  <2>1. /\ Holding(c, "dial") \/ Holding(c, "handshake")
        /\ Failed(c) /\ CountFault
    BY <1>3 DEF ConnectFails
  <2>2. /\ DOMAIN world' = DOMAIN world /\ world'.restarted = world.restarted
        /\ world'.late = world.late
    BY <2>1 DEF CountFault, Inductive, Shape
  <2>3. Holding(c, service.step) /\ service.step \in Connecting /\ c = service.holder
    BY <2>1 DEF Holding, Connecting
  <2>4. CASE Reconnecting
    <3>1. /\ service' = [service EXCEPT !.step = "reconnect"]
          /\ UNCHANGED <<call, thread>> /\ call[c].method = "compile"
      BY <2>1, <2>3, <2>4 DEF Failed, Reconnecting
    <3>2. /\ DOMAIN service' = DOMAIN service
          /\ service'.holder = c /\ service'.step = "reconnect"
          /\ service'.index = service.index
          /\ service'.poisoned = service.poisoned /\ service'.program = service.program
          /\ service'.inits = service.inits /\ service'.metadata = service.metadata
          /\ service'.connections = service.connections
      BY <3>1, <2>3 DEF Inductive, Shape, NewService
    <3>3. service'.step \in StepsOf(call[c].method)
      BY <3>1, <3>2 DEF StepsOf
    <3>4. Progress'
      BY <3>2 DEF Progress, MidInit, Connecting
    <3> QED
      BY <2>2, <2>3, <3>1, <3>2, <3>3, <3>4, Advancing DEF Inductive, Shape
  <2>5. CASE ~ Reconnecting
    BY <2>1, <2>2, <2>3, <2>5, NothingChanged DEF Failed
  <2> QED
    BY <2>4, <2>5
<1> QED
  BY <1>1, <1>2, <1>3

-----------------------------------------------------------------------------
\* The first step of init clears the connections, and notes whether it is late.
LEMMA ClearConnectionsStep ==
  ASSUME Inductive, NEW c \in Calls, ClearConnections(c)
  PROVE  Inductive'
<1>1. /\ Holding(c, "init") /\ UNCHANGED <<call, thread>>
      /\ service' = [service EXCEPT !.connections = << >>, !.index = 1,
                       !.step = IF num_connections = 0 THEN "build" ELSE "dial"]
      /\ world' = [world EXCEPT !.late = @ \/ Ready]
  BY DEF ClearConnections, Ready
<1>2. /\ DOMAIN service' = DOMAIN service
      /\ service'.holder = c /\ service'.index = 1
      /\ service'.step = IF num_connections = 0 THEN "build" ELSE "dial"
      /\ service'.poisoned = service.poisoned /\ service'.program = service.program
      /\ service'.inits = service.inits /\ service'.metadata = service.metadata
      /\ service'.connections = << >>
  BY <1>1 DEF Inductive, Shape, Holding, NewService
<1>3. /\ DOMAIN world' = DOMAIN world /\ world'.restarted = world.restarted
      /\ world'.late = (world.late \/ Ready)
  BY <1>1 DEF Inductive, Shape
<1>4. call[c].method = "init"
  BY <1>1, StepTellsMethod DEF StepsOf, Connecting, Method
<1>5. service'.step \in StepsOf(call[c].method)
  BY <1>2, <1>4 DEF StepsOf, Connecting
<1>6. << >> \in Seq({"alive", "dead"}) /\ Len(<< >>) = 0
  OBVIOUS
<1>7. Progress'
  BY <1>2, <1>6 DEF Progress, IrServiceAssumption
<1> QED
  BY <1>1, <1>2, <1>3, <1>5, <1>6, <1>7, Advancing DEF Inductive, Shape

\* The success of an init: the one moment at which Ready becomes true.
LEMMA BuildProgramStep ==
  ASSUME Inductive, NEW c \in Calls, BuildProgram(c)
  PROVE  Inductive'
<1> DEFINE state == [service EXCEPT !.inits = @ + 1, !.program = service.inits + 1]
<1>1. Holding(c, "build") /\ Unlock(c, state, "success") /\ UNCHANGED world
  BY DEF BuildProgram
<1>2. /\ DOMAIN state = DOMAIN NewService
      /\ state.inits = service.inits + 1 /\ state.program = service.inits + 1
      /\ state.poisoned = service.poisoned /\ state.metadata = service.metadata
      /\ state.connections = service.connections
  BY DEF Inductive, Shape, NewService
<1>3. /\ state.inits \in Nat /\ state.program \in Nat /\ state.program # 0
      /\ state.connections \in Seq({"alive", "dead"})
  BY <1>2 DEF Inductive, Shape
<1> HIDE DEF state
<1>4. /\ Shape' /\ Clients' /\ Steps' /\ Progress' /\ ~ MidInit'
      /\ service'.poisoned = service.poisoned /\ service'.program # 0
      /\ service'.metadata = service.metadata
      /\ service'.connections = service.connections
  BY <1>1, <1>2, <1>3, Unlocking
<1>5. MidInit /\ Len(service.connections) = num_connections
  BY <1>1 DEF Holding, MidInit, Inductive, Progress
<1>6. ~ world.late => service.metadata = 0 /\ ~ service.poisoned
  BY <1>5 DEF Inductive, Undisturbed, OnlyLateInitsHurt
<1>7. Undisturbed' /\ OnlyLateInitsHurt'
  BY <1>1, <1>4, <1>5, <1>6 DEF Undisturbed, OnlyLateInitsHurt
<1> QED
  BY <1>4, <1>7 DEF Inductive

\* Requests that are refused, and mutations, change nothing; without a late
\* init no request panics.
LEMMA MutateSteps ==
  ASSUME Inductive, NEW c \in Calls, NotInitialized(c) \/ Mutate(c) \/ Panic(c)
  PROVE  Inductive'
<1>1. CASE NotInitialized(c)
  BY <1>1, NothingChanged DEF NotInitialized
<1>2. CASE Mutate(c)
  <2>1. Holding(c, "mutate") /\ Unlock(c, service, "success") /\ UNCHANGED world
    BY <1>2 DEF Mutate
  <2>2. c \notin Inits
    BY <2>1, StepTellsMethod DEF StepsOf, Connecting
  <2> QED
    BY <2>1, <2>2, NothingChanged
<1>3. CASE Panic(c)
  <2> DEFINE state == [service EXCEPT !.poisoned = TRUE]
  <2>1. /\ Holding(c, "mutate") /\ Unlock(c, state, "error") /\ UNCHANGED world
        /\ service.metadata \notin {0, service.program}
    BY <1>3 DEF Panic
  <2>2. /\ DOMAIN state = DOMAIN NewService
        /\ state.inits = service.inits /\ state.program = service.program
        /\ state.connections = service.connections
    BY DEF Inductive, Shape, NewService
  <2>3. world.late
    BY <2>1 DEF Inductive, OnlyLateInitsHurt
  <2> HIDE DEF state
  <2>4. Shape' /\ Clients' /\ Steps' /\ Progress'
    BY <2>1, <2>2, Unlocking DEF Inductive, Shape
  <2> QED
    BY <2>1, <2>3, <2>4 DEF Inductive, Undisturbed, OnlyLateInitsHurt
<1> QED
  BY <1>1, <1>2, <1>3

\* Messages go out, and broken connections are taken in turn.
LEMMA CompileSteps ==
  ASSUME Inductive, NEW c \in Calls,
         Reconnect(c) \/ \E with_ping \in BOOLEAN : Compile(c, with_ping)
  PROVE  Inductive'
<1>1. /\ Holding(c, service.step) /\ service.step \in {"compile", "reconnect"}
      /\ UNCHANGED <<call, thread, world>>
  BY DEF Reconnect, Compile, Holding
<1>2. call[c].method = "compile" /\ c = service.holder
  BY <1>1, StepTellsMethod DEF StepsOf, Connecting, Method
<1>3. /\ DOMAIN service' = DOMAIN service
      /\ service'.holder = c /\ service'.step \in {"reconnect", "dial"}
      /\ service'.poisoned = service.poisoned /\ service'.program = service.program
      /\ service'.inits = service.inits /\ service'.metadata = service.metadata
      /\ service'.connections = service.connections
  BY <1>2 DEF Reconnect, Compile, Inductive, Shape, NewService
<1>4. service'.step \in StepsOf(call[c].method)
  BY <1>2, <1>3 DEF StepsOf, Connecting
<1>5. Progress'
  BY <1>1, <1>2, <1>3 DEF Progress, MidInit, Connecting
<1> QED
  BY <1>1, <1>2, <1>3, <1>4, <1>5, Advancing DEF Inductive, Shape

\* The end of compile: the metadata is about the program there is.
LEMMA SyncStep ==
  ASSUME Inductive, NEW c \in Calls, NEW found \in BOOLEAN, Sync(c, found)
  PROVE  Inductive'
<1> DEFINE state == [service EXCEPT !.metadata = IF found THEN service.program ELSE @]
<1>1. Holding(c, "reconnect") /\ Unlock(c, state, "success") /\ UNCHANGED world
  BY DEF Sync
<1>2. /\ DOMAIN state = DOMAIN NewService
      /\ state.inits = service.inits /\ state.program = service.program
      /\ state.poisoned = service.poisoned
      /\ state.metadata \in {service.metadata, service.program}
      /\ state.connections = service.connections
  BY DEF Inductive, Shape, NewService
<1>3. c \notin Inits /\ c \in Drivers /\ call[c].status # "none"
  BY <1>1, StepTellsMethod DEF StepsOf, Connecting, Calls
<1>4. Ready
  BY <1>3 DEF Inductive, Clients
<1> HIDE DEF state
<1>5. /\ Shape' /\ Clients' /\ Steps' /\ Progress' /\ ~ MidInit'
      /\ service'.poisoned = service.poisoned /\ service'.program = service.program
      /\ service'.metadata \in {service.metadata, service.program}
      /\ service'.connections = service.connections
      /\ Answer(c, "success")
  BY <1>1, <1>2, Unlocking DEF Inductive, Shape
<1>6. Ready'
  BY <1>3, <1>4, <1>5, ReadyStays DEF Inductive
<1> QED
  BY <1>1, <1>4, <1>5, <1>6 DEF Inductive, Undisturbed, OnlyLateInitsHurt

-----------------------------------------------------------------------------
\* The mutex is taken for a request whose client has called.
LEMMA LockSteps ==
  ASSUME Inductive, NEW c \in Calls, Lock(c) \/ LockPoisoned(c)
  PROVE  Inductive'
<1>1. thread[c] = "locking" /\ UNCHANGED world /\ service.holder = NoOne
  BY DEF Lock, LockPoisoned
<1>2. call[c].status # "none" /\ call[c].method \in Method /\ ~ MidInit
  BY <1>1 DEF Inductive, Clients, Shape, Steps, MidInit, Connecting, NoOne, Calls,
              IrServiceAssumption
<1>3. CASE LockPoisoned(c)
  <2>1. /\ thread' = [thread EXCEPT ![c] = "done"] /\ Answer(c, "error")
        /\ UNCHANGED <<service, world>>
    BY <1>3 DEF LockPoisoned
  <2>2. Clients' /\ Ready' = Ready
    BY <1>2, <2>1, ClientsStay, ReadyStays DEF Inductive, Shape
  <2>3. Shape'
    BY <1>2, <2>1, Answering DEF Inductive, Shape
  <2>4. Steps' /\ ~ MidInit'
    BY <1>1, <1>2, <2>1 DEF Inductive, Steps, MidInit, Connecting, NoOne, Calls,
                            IrServiceAssumption
  <2> QED
    BY <2>1, <2>2, <2>3, <2>4
    DEF Inductive, Progress, Undisturbed, OnlyLateInitsHurt, MidInit
<1>4. CASE Lock(c)
  <2>1. /\ thread' = [thread EXCEPT ![c] = "running"]
        /\ service' = [service EXCEPT !.holder = c, !.step = call[c].method]
        /\ UNCHANGED <<call, world>>
    BY <1>4 DEF Lock
  <2>2. /\ DOMAIN service' = DOMAIN service
        /\ service'.holder = c /\ service'.step = call[c].method
        /\ service'.poisoned = service.poisoned /\ service'.program = service.program
        /\ service'.inits = service.inits /\ service'.metadata = service.metadata
        /\ service'.connections = service.connections
    BY <2>1 DEF Inductive, Shape, NewService
  <2>3. Shape' /\ Ready' = Ready
    BY <2>1, <2>2 DEF Inductive, Shape, Ready
  <2>4. Clients'
    BY <1>2, <2>1, <2>3 DEF Inductive, Clients, Shape
  <2>5. Steps'
    BY <1>2, <2>1, <2>2 DEF Steps, StepsOf, Method
  <2>6. ~ MidInit' /\ service'.step # "build"
    BY <1>2, <2>2 DEF MidInit, Connecting, Method
  <2> QED
    BY <2>1, <2>2, <2>3, <2>4, <2>5, <2>6
    DEF Inductive, Progress, Undisturbed, OnlyLateInitsHurt
<1> QED
  BY <1>3, <1>4

\* A request is written, or the connection it went over breaks.
LEMMA ClientSteps ==
  ASSUME Inductive, NEW c \in Calls, Break(c) \/ \E method \in Method : Call(c, method)
  PROVE  Inductive'
<1>1. CASE Break(c)
  <2>1. /\ call[c].status = "waiting" /\ call' = [call EXCEPT ![c].status = "error"]
        /\ UNCHANGED <<thread, service>>
        /\ DOMAIN world' = DOMAIN world /\ world'.late = world.late
        /\ world'.restarted = world.restarted
    BY <1>1 DEF Break, Waiting, CountFault, Inductive, Shape
  <2>2. Answer(c, "error") /\ call[c].status # "none"
    BY <2>1 DEF Answer, Inductive, Shape
  <2>3. Clients' /\ Ready' = Ready
    BY <2>1, <2>2, ClientsStay, ReadyStays DEF Inductive
  <2>4. /\ Shape'
        /\ \A x \in Calls : /\ call'[x].method = call[x].method
                            /\ (call'[x].status = "none") <=> (call[x].status = "none")
    BY <2>1, <2>2, Answering DEF Inductive, Shape
  <2>5. Steps'
    BY <2>1, <2>4 DEF Inductive, Steps
  <2>6. MidInit' = MidInit
    BY <2>1, <2>4 DEF Inductive, Steps, MidInit, Connecting
  <2> QED
    BY <2>1, <2>3, <2>4, <2>5, <2>6
    DEF Inductive, Progress, Undisturbed, OnlyLateInitsHurt
<1>2. ASSUME NEW method \in Method, Call(c, method) PROVE Inductive'
  <2>1. /\ call[c].status = "none" /\ UNCHANGED <<service, world>>
        /\ (c \in Inits) <=> (method = "init")
        /\ c \notin Inits => Ready
        /\ call' = [call EXCEPT ![c] = [status |-> "waiting", method |-> method]]
        /\ thread' = [thread EXCEPT ![c] = "locking"]
    BY <1>2 DEF Call, MayCall, Ready
  <2>2. Shape'
    BY <2>1 DEF Inductive, Shape
  <2>3. \A x \in Calls : x # c => call'[x] = call[x] /\ thread'[x] = thread[x]
    BY <2>1 DEF Inductive, Shape
  <2>4. call'[c] = [status |-> "waiting", method |-> method]
    BY <2>1 DEF Inductive, Shape
  <2>5. Ready' = Ready
    BY <2>1, <2>3, <2>4 DEF Ready, Calls
  <2>6. Clients'
    BY <2>1, <2>3, <2>4, <2>5 DEF Inductive, Clients, Calls, IrServiceAssumption
  <2>7. service.holder # c
    BY <2>1, IrServiceAssumption DEF Inductive, Steps, NoOne, Calls
  <2>8. Steps' /\ MidInit' = MidInit
    BY <2>1, <2>3, <2>7 DEF Inductive, Steps, MidInit, Connecting, NoOne
  <2> QED
    BY <2>1, <2>2, <2>5, <2>6, <2>8
    DEF Inductive, Progress, Undisturbed, OnlyLateInitsHurt
<1> QED
  BY <1>1, <1>2

\* What happens around the service touches none of it but the connections,
\* or starts it over.
LEMMA WorldSteps ==
  ASSUME Inductive,
         \/ DialBack \/ LoseDial \/ Restart
         \/ \E k \in DOMAIN service.connections : Drop(k)
  PROVE  Inductive'
<1>1. CASE DialBack \/ LoseDial
  <2>1. /\ UNCHANGED <<call, thread, service>>
        /\ DOMAIN world' = DOMAIN world /\ world'.late = world.late
        /\ world'.restarted = world.restarted
    BY <1>1 DEF DialBack, LoseDial, Inductive, Shape
  <2> QED
    BY <2>1 DEF Inductive, Shape, Clients, Steps, Progress, Undisturbed,
                OnlyLateInitsHurt, MidInit, Ready
<1>2. ASSUME NEW k \in DOMAIN service.connections, Drop(k) PROVE Inductive'
  <2>1. /\ service' = [service EXCEPT !.connections[k] = "dead"]
        /\ UNCHANGED <<call, thread>>
        /\ DOMAIN world' = DOMAIN world /\ world'.late = world.late
        /\ world'.restarted = world.restarted
    BY <1>2 DEF Drop, CountFault, Inductive, Shape
  <2>2. /\ DOMAIN service' = DOMAIN service
        /\ service'.holder = service.holder /\ service'.step = service.step
        /\ service'.index = service.index
        /\ service'.poisoned = service.poisoned /\ service'.program = service.program
        /\ service'.inits = service.inits /\ service'.metadata = service.metadata
        /\ service'.connections = [service.connections EXCEPT ![k] = "dead"]
    BY <2>1 DEF Inductive, Shape, NewService
  <2>3. service.connections \in Seq({"alive", "dead"}) /\ "dead" \in {"alive", "dead"}
    BY DEF Inductive, Shape
  <2>4. /\ service'.connections \in Seq({"alive", "dead"})
        /\ Len(service'.connections) = Len(service.connections)
    <3>1. service'.connections = Replaced(service.connections, k, "dead")
      BY <2>2 DEF Replaced
    <3> QED
      BY <2>3, <3>1, Replacing
  <2> QED
    BY <2>1, <2>2, <2>4 DEF Inductive, Shape, Clients, Steps, Progress, Undisturbed,
                            OnlyLateInitsHurt, MidInit, Ready
<1>3. CASE Restart
  <2>1. /\ service' = NewService
        /\ thread' = [c \in Calls |-> IF thread[c] = "none" THEN "none" ELSE "done"]
        /\ call' = [c \in Calls |-> IF Waiting(c) THEN [call[c] EXCEPT !.status = "error"]
                                    ELSE call[c]]
        /\ DOMAIN world' = DOMAIN world /\ world'.late = world.late
        /\ world'.restarted = TRUE
    BY <1>3 DEF Restart, Inductive, Shape
  <2>2. \A c \in Calls :
          /\ call'[c] \in [status : {"none", "waiting", "success", "error"}, method : Method]
          /\ call'[c].method = call[c].method
          /\ (call'[c].status = "none") <=> (call[c].status = "none")
          /\ (call'[c].status = "success") <=> (call[c].status = "success")
    BY <2>1 DEF Inductive, Shape, Waiting
  <2>3. Ready' = Ready
    BY <2>2 DEF Ready, Calls
  <2>4. Shape'
    BY <2>1, <2>2, NewServiceIsFine DEF Inductive, Shape
  <2>5. Clients'
    BY <2>1, <2>2, <2>3 DEF Inductive, Clients, Calls
  <2>6. ~ MidInit' /\ Steps' /\ service'.step # "build"
    BY <2>1, NewServiceIsFine DEF MidInit, Steps, Connecting
  <2> QED
    BY <2>1, <2>3, <2>4, <2>5, <2>6, NewServiceIsFine
    DEF Inductive, Progress, Undisturbed, OnlyLateInitsHurt
<1> QED
  BY <1>1, <1>2, <1>3

-----------------------------------------------------------------------------
\* Every step keeps the invariant.
LEMMA InductiveStep == Inductive /\ [ServiceNext]_service_vars => Inductive'
<1> SUFFICES ASSUME Inductive, [ServiceNext]_service_vars PROVE Inductive'
  OBVIOUS
<1>1. ASSUME NEW c \in Calls, Serve(c) PROVE Inductive'
  BY <1>1, LockSteps, ClearConnectionsStep, BuildProgramStep, ConnectSteps, MutateSteps,
     CompileSteps, SyncStep DEF Serve
<1>2. CASE UNCHANGED service_vars
  BY <1>2 DEF service_vars, Inductive, Shape, Clients, Steps, Progress, Undisturbed,
              OnlyLateInitsHurt, MidInit, Ready
<1> QED
  BY <1>1, <1>2, ClientSteps, WorldSteps DEF ServiceNext

\* Only an init that gets the mutex after the health checker was answered can
\* do harm: for any number of calls, connections, restarts and faults, as long
\* as there was none the metadata is about the program there is, no request
\* has panicked, and a service that was not restarted has all its connections.
THEOREM OnlyLateInitsCanHurt == ServiceSpec => []OnlyLateInitsHurt
<1>1. ServiceInit => Inductive
  BY InductiveInit
<1>2. Inductive /\ [ServiceNext]_service_vars => Inductive'
  BY InductiveStep
<1>3. Inductive => OnlyLateInitsHurt
  BY DEF Inductive
<1> QED
  BY <1>1, <1>2, <1>3, PTL DEF ServiceSpec
=============================================================================
