-------------------------------- MODULE Link --------------------------------
(* The link between a TCP client and the STM32: uart4_rx and what the tasks  *)
(* of the STM32 transmit, the ESP32 bridge (tcp_task) and one client at a    *)
(* time. Towards the STM32 the link is modelled byte by byte: a frame is its *)
(* number and its bytes are the cells <<number, 1>>, <<number, 2>>, ...,     *)
(* closed by the zero byte <<number, 0>>; a receiver sees which bytes are    *)
(* zero, and nothing else of where they come from. Clients' commands are     *)
(* numbered from 1 in the order in which they are sent. Towards the bridge   *)
(* the link is modelled frame by frame.                                      *)
EXTENDS Drain, Integers, Sequences, FiniteSets, SequencesExt, FiniteSetsExt

CONSTANTS
  Lengths,      \* cells in the body of each command a client will send
  Stops,        \* which of them are EmergencyStops
  CmdBufCap,    \* uart4_rx's cmd_buf, in cells
  FifoCap,      \* frames that fit the receive FIFO of the bridge's UART
  TcpChunk,     \* most cells the bridge reads from the socket at once
  WireCap,      \* cells on their way from the bridge's UART to uart4_rx
  TcpCap,       \* cells a client may have outstanding
  QueueCap,     \* cmd_in
  BootRetries,  \* Hellos the STM32 sends without an answer
  MaxFaults     \* disconnections and restarts of a behaviour

ASSUME LinkAssumption ==
  /\ Lengths \in Seq(Nat \ {0}) /\ Stops \subseteq DOMAIN Lengths
  /\ {CmdBufCap, FifoCap, TcpChunk, QueueCap} \subseteq Nat \ {0}
  /\ WireCap \in Nat /\ WireCap >= 2 /\ WireCap >= TcpChunk
  /\ {TcpCap, BootRetries, MaxFaults} \subseteq Nat

\* The frames of the handshake, a frame that is meant for the client (HelloAck,
\* telemetry, calibration), one that reaches the bridge with bytes missing, and
\* the outcomes of a decoding that finds no frame, or one that nobody sent.
Hello == 0
HelloAck == -1
ForClient == -2
Mangled == -3
Nothing == -4
Junk == -5

\* The frames uart4_rx may be sent.
Frames == DOMAIN Lengths \cup {Hello, HelloAck}

BodyLen(f) == IF f > 0 THEN Lengths[f] ELSE 1
Body(f)    == [i \in 1..BodyLen(f) |-> <<f, i>>]
Frame(f)   == Append(Body(f), <<f, 0>>)
IsZero(c)  == c[2] = 0

\* The commands with cells in a stretch of the stream.
In(cells) == {cells[i][1] : i \in DOMAIN cells} \cap DOMAIN Lengths

(* What postcard::from_bytes_cobs makes of a buffer: a body is its frame.    *)
(* Of a body with more behind it, it deserializes the frame and ignores the  *)
(* rest, unless COBS rejects the rest. There is no checksum: of anything     *)
(* else it makes an error or some value that happens to deserialize.         *)
Decode(buf) ==
  LET whole == {f \in Frames : IsPrefix(Body(f), buf)} IN
  IF \E f \in whole : buf = Body(f) THEN whole
  ELSE IF whole # {} THEN whole \cup {Nothing} ELSE {Nothing, Junk}

VARIABLES
  cmd_buf, cmd_in,      \* uart4_rx's frame and the queue it fills
  booting, attempts,    \* STATE::BOOT and its Hellos
  fifo,                 \* frames from the STM32 the bridge has not dealt with
  e2s, c2e, conn,       \* wire to the STM32, the socket's stream, the connection
  faults,               \* disconnections and restarts so far
  fate, credit, cut     \* the commands' fates, pieces, command half written

stm == <<cmd_buf, cmd_in, booting, attempts>>
ghosts == <<fate, credit, cut>>
vars == <<stm, fifo, e2s, c2e, conn, faults, ghosts>>

Init ==
  /\ cmd_buf = <<>> /\ cmd_in = <<>> /\ booting = TRUE /\ attempts = 0
  /\ e2s \in {<<>>, Frame(Hello)}      \* the ESP32's, if uart4_rx listens by then
  /\ fifo = <<>> /\ c2e = <<>> /\ conn = "none" /\ faults = 0
  /\ fate = <<>> /\ credit = 0 /\ cut = 0

\* A disturbance strikes these commands, and the stream uart4_rx sees may now
\* hold so many more pieces that are no frame.
Strike(S, pieces) ==
  /\ fate' = [s \in DOMAIN fate |-> IF s \in S /\ fate[s] = "sent" THEN "struck" ELSE fate[s]]
  /\ credit' = credit + pieces

-----------------------------------------------------------------------------
(* The STM32 *)

\* The queue tells apart only what the link's own handshake needs and what ends
\* BOOT. A value that merely happens to deserialize counts with the others.
AnyCommand == 1
EmergencyStop == 2
Entry(d) == CASE d \in {Hello, HelloAck} -> d
              [] d \in Stops             -> EmergencyStop
              [] OTHER                   -> AnyCommand

Queue == {q \in Seq({Hello, HelloAck, AnyCommand, EmergencyStop}) : Len(q) <= QueueCap}

\* A decoded command is pushed, or dropped when the queue is full.
Accept(d) ==
  LET room == Len(cmd_in) < QueueCap IN
  /\ cmd_in' = IF d # Nothing /\ room THEN Append(cmd_in, Entry(d)) ELSE cmd_in
  /\ credit' = IF d = Junk THEN credit - 1 ELSE credit
  /\ fate' = IF d \notin DOMAIN fate THEN fate
             ELSE [fate EXCEPT ![d] = IF @ \in {"queued", "refused", "twice"} THEN "twice"
                                      ELSE IF room THEN "queued" ELSE "refused"]

\* Seeded bug: without the bound.
StoreUnbounded(c) == cmd_buf' = Append(cmd_buf, c)

\* A byte that is not zero: one too many empties the buffer and is lost too.
Store(c) == cmd_buf' = IF Len(cmd_buf) < CmdBufCap THEN Append(cmd_buf, c) ELSE <<>>

\* Seeded bugs: the length is reset only after a successful decoding, or never.
EndFrameOnSuccess ==
  IF cmd_buf = <<>> THEN UNCHANGED <<cmd_buf, cmd_in, fate, credit>>
  ELSE \E d \in Decode(cmd_buf) :
         Accept(d) /\ cmd_buf' = IF d = Nothing THEN cmd_buf ELSE <<>>
EndFrameKept ==
  /\ UNCHANGED cmd_buf
  /\ IF cmd_buf = <<>> THEN UNCHANGED <<cmd_in, fate, credit>>
     ELSE \E d \in Decode(cmd_buf) : Accept(d)

\* A zero byte: what has been collected is decoded, if anything has.
EndFrame ==
  /\ cmd_buf' = <<>>
  /\ IF cmd_buf = <<>> THEN UNCHANGED <<cmd_in, fate, credit>>
     ELSE \E d \in Decode(cmd_buf) : Accept(d)

UartRx ==
  /\ e2s # <<>>
  /\ e2s' = Tail(e2s)
  /\ \/ IsZero(Head(e2s)) /\ EndFrame
     \/ ~IsZero(Head(e2s)) /\ Store(Head(e2s)) /\ UNCHANGED <<cmd_in, fate, credit>>
  /\ UNCHANGED <<booting, attempts, fifo, c2e, conn, faults, cut>>

\* A frame is sent to the bridge. It gets there whole, or mangled when either
\* end restarts, reconnects or overflows within it; a full FIFO loses it, or
\* all that it holds.
Transmit(f) == IF Len(fifo) < FifoCap THEN fifo' \in {Append(fifo, f), Append(fifo, Mangled)}
               ELSE fifo' \in {fifo, <<>>}

\* An iteration of state_manager, as far as the link goes: a Hello is answered
\* and ends it, and so does an EmergencyStop, in BOOT too. BOOT announces itself
\* and looks for an ack behind the popped command, any other state just takes it.
Iterate ==
  LET popped == IF cmd_in = <<>> THEN Nothing ELSE Head(cmd_in)
      rest   == IF cmd_in = <<>> THEN <<>> ELSE Tail(cmd_in)
      acked  == Contains(rest, HelloAck) IN
  /\ \/ /\ popped = Hello
        /\ Transmit(ForClient) /\ cmd_in' = rest
        /\ UNCHANGED <<booting, attempts>>
     \/ /\ booting /\ popped \notin {Hello, EmergencyStop}
        /\ Transmit(Hello)
        /\ cmd_in' = Kept(rest, {HelloAck})
        /\ booting' = ~(acked \/ attempts >= BootRetries)
        /\ attempts' = IF booting' THEN attempts + 1 ELSE 0
     \/ /\ popped \notin {Hello, Nothing}
        /\ booting => popped = EmergencyStop
        /\ cmd_in' = rest /\ booting' = FALSE
        /\ UNCHANGED <<attempts, fifo>>
  /\ UNCHANGED <<cmd_buf, e2s, c2e, conn, faults, ghosts>>

TelemetryTask ==
  /\ ~booting
  /\ Transmit(ForClient)
  /\ UNCHANGED <<stm, e2s, c2e, conn, faults, ghosts>>

-----------------------------------------------------------------------------
(* The bridge. Its loop deals with the UART and the socket in turn, and      *)
(* either may have nothing for it, so the two handlers come in any order.    *)

\* uart.write_all: what is written in the middle of a client's command strikes
\* it, and a command that follows a half-written one is struck with it.
Write(cells) ==
  LET first == Head(cells)[1] IN
  /\ Len(e2s) + Len(cells) <= WireCap
  /\ e2s' = e2s \o cells
  /\ IF cut # 0 /\ first # cut THEN Strike({cut, first}, 2) ELSE Strike({}, 0)
  /\ cut' = IF IsZero(Last(cells)) THEN 0 ELSE Last(cells)[1]

Connect ==
  /\ conn = "none"
  /\ conn' = "up"
  /\ UNCHANGED <<stm, fifo, e2s, c2e, faults, ghosts>>

\* break 'conn: the socket goes with what it holds. Of the frames from the
\* STM32, those in the chunk that was being dealt with are lost.
Disconnect ==
  /\ conn' = "none"
  /\ Strike(In(c2e), 0) /\ c2e' = <<>>
  /\ UNCHANGED <<e2s, cut>>

\* A Hello is answered on the spot and goes no further. A mangled frame may
\* happen to deserialize as one.
AnswerHello ==
  /\ conn # "none" /\ fifo # <<>> /\ Head(fifo) \in {Hello, Mangled}
  /\ Write(Frame(HelloAck))
  /\ fifo' = Tail(fifo)
  /\ UNCHANGED <<stm, c2e, conn, faults>>

\* Seeded bug: errors of the socket are ignored.
ForwardFrameBlindly ==
  /\ conn # "none" /\ fifo # <<>> /\ Head(fifo) # Hello
  /\ fifo' = Tail(fifo)
  /\ UNCHANGED <<stm, e2s, c2e, conn, faults, ghosts>>

\* Any other frame is sent on to the client, which fails once it is gone.
ForwardFrame ==
  /\ conn # "none" /\ fifo # <<>> /\ Head(fifo) # Hello
  /\ \/ /\ conn # "rst"
        /\ fifo' = Tail(fifo)
        /\ UNCHANGED <<e2s, c2e, conn, ghosts>>
     \/ /\ conn # "up"
        /\ Disconnect
        /\ \E n \in 1..Len(fifo) : fifo' = SubSeq(fifo, n + 1, Len(fifo))
  /\ UNCHANGED <<stm, faults>>

\* Seeded bug: nothing more is read once the client has closed its side.
TcpToUartWhileOpen ==
  /\ conn = "up" /\ c2e # <<>>
  /\ \E n \in 1..Min({TcpChunk, Len(c2e)}) :
       /\ Write(SubSeq(c2e, 1, n))
       /\ c2e' = SubSeq(c2e, n + 1, Len(c2e))
  /\ UNCHANGED <<stm, fifo, conn, faults>>

\* A piece of the client's stream, wherever it is cut, goes to the UART as it
\* is. A socket that was reset reads as an error, which is ignored.
TcpToUart ==
  /\ conn \in {"up", "fin"} /\ c2e # <<>>
  /\ \E n \in 1..Min({TcpChunk, Len(c2e)}) :
       /\ Write(SubSeq(c2e, 1, n))
       /\ c2e' = SubSeq(c2e, n + 1, Len(c2e))
  /\ UNCHANGED <<stm, fifo, conn, faults>>

\* The client has closed its side and all it sent has been read.
EndOfStream ==
  /\ conn = "fin" /\ c2e = <<>>
  /\ Disconnect
  /\ UNCHANGED <<stm, fifo, faults>>

-----------------------------------------------------------------------------
(* The client and the failures *)

\* A command longer than cmd_buf is struck from the start.
ClientSend ==
  LET s == Len(fate) + 1 IN
  /\ conn = "up" /\ s \in DOMAIN Lengths
  /\ Len(c2e) + BodyLen(s) < TcpCap
  /\ c2e' = c2e \o Frame(s)
  /\ IF BodyLen(s) > CmdBufCap
       THEN fate' = Append(fate, "struck") /\ credit' = credit + 1
       ELSE fate' = Append(fate, "sent") /\ UNCHANGED credit
  /\ UNCHANGED <<stm, fifo, e2s, conn, faults, cut>>

\* The client closes the connection, perhaps within a command.
ClientLeave ==
  LET s == Len(fate) + 1 IN
  /\ conn = "up" /\ faults < MaxFaults
  /\ conn' = "fin" /\ faults' = faults + 1
  /\ \/ UNCHANGED <<c2e, fate>>
     \/ /\ s \in DOMAIN Lengths
        /\ \E n \in 1..Min({BodyLen(s), TcpCap - Len(c2e)}) : c2e' = c2e \o SubSeq(Body(s), 1, n)
        /\ fate' = Append(fate, "struck")
  /\ UNCHANGED <<stm, fifo, e2s, credit, cut>>

\* The connection breaks: the network fails or the 30 s timeout strikes.
ConnectionLost ==
  /\ conn \in {"up", "fin"} /\ faults < MaxFaults
  /\ conn' = "rst" /\ faults' = faults + 1
  /\ c2e' = <<>> /\ Strike(In(c2e), 0)
  /\ UNCHANGED <<stm, fifo, e2s, cut>>

\* The STM32 restarts: memory and queue are gone, and bytes pass by until
\* uart4_rx listens again.
StmRestart ==
  /\ faults < MaxFaults /\ faults' = faults + 1
  /\ booting' = TRUE /\ attempts' = 0 /\ cmd_buf' = <<>> /\ cmd_in' = <<>>
  /\ \E n \in 0..Len(e2s) :
       LET missed == In(cmd_buf \o SubSeq(e2s, 1, n)) IN
       /\ e2s' = SubSeq(e2s, n + 1, Len(e2s))
       /\ Strike(missed, IF missed = {} THEN 0 ELSE 1)
  /\ UNCHANGED <<fifo, c2e, conn, cut>>

\* The ESP32 restarts: its connection, its buffers and what its UART had not
\* sent yet are gone, and it announces itself.
EspRestart ==
  /\ faults < MaxFaults /\ faults' = faults + 1
  /\ fifo' = <<>> /\ conn' = "none" /\ c2e' = <<>>
  /\ \E n \in 0..Len(e2s) :
       /\ e2s' = SubSeq(e2s, 1, n) \o Frame(Hello)
       /\ Strike(In(SubSeq(e2s, n + 1, Len(e2s)) \o c2e) \cup {cut}, IF e2s = <<>> /\ cut = 0 THEN 0 ELSE 1)
  /\ cut' = 0
  /\ UNCHANGED stm

Next == \/ UartRx \/ Iterate \/ TelemetryTask
        \/ Connect \/ AnswerHello \/ ForwardFrame \/ TcpToUart \/ EndOfStream
        \/ ClientSend \/ ClientLeave \/ ConnectionLost \/ StmRestart \/ EspRestart

Spec == Init /\ [][Next]_vars

(* Every task of either board runs for ever. The bridge's loop comes back to  *)
(* both of its handlers, often enough to find a frame in the FIFO, and waits  *)
(* for room on the wire; mangled frames do not read as Hellos for ever.       *)
(* Clients and failures owe nothing.                                          *)
Fairness ==
  /\ WF_vars(UartRx) /\ WF_vars(Iterate) /\ WF_vars(TelemetryTask)
  /\ WF_vars(AnswerHello) /\ SF_vars(ForwardFrame)
  /\ SF_vars(TcpToUart) /\ WF_vars(EndOfStream)

LiveSpec == Spec /\ Fairness

-----------------------------------------------------------------------------
(* Properties *)

Cells == UNION {{<<f, i>> : i \in 0..BodyLen(f)} : f \in Frames}

\* Types and capacities of buffers, queue and wires.
LinkTypeOK ==
  /\ cmd_buf \in Seq(Cells) /\ Len(cmd_buf) <= CmdBufCap
  /\ cmd_in \in Queue
  /\ booting \in BOOLEAN /\ attempts \in 0..BootRetries
  /\ fifo \in Seq({Hello, ForClient, Mangled}) /\ Len(fifo) <= FifoCap
  /\ e2s \in Seq(Cells) /\ Len(e2s) <= WireCap + 2 * faults
  /\ c2e \in Seq(Cells) /\ Len(c2e) <= TcpCap
  /\ conn \in {"none", "up", "fin", "rst"}
  /\ faults \in 0..MaxFaults
  /\ fate \in Seq({"sent", "struck", "queued", "refused", "twice"})
  /\ credit \in Nat /\ cut \in {0} \cup DOMAIN fate

\* The cells of commands between a client and a decoded command.
Stream == cmd_buf \o e2s \o c2e

\* A command that no disturbance has struck is on its way, whole, or has
\* arrived: whatever happens to one command, the zero that closes it brings
\* uart4_rx back in step for the next.
DamageConfined ==
  \A s \in DOMAIN fate : fate[s] = "sent" =>
     \E i \in 0..Len(Stream) : IsPrefix(Frame(s), SubSeq(Stream, i + 1, Len(Stream)))

\* The link is an ordered channel without duplicates whose losses, and the
\* frames it makes up, are paid for by commands a disturbance struck.
Promised == INSTANCE Channel
ImplementsChannel == Promised!CSpec

\* Once the clients pause, every command sent arrives unless a disturbance has
\* struck it: neither a fragment before it nor the handshake holds it up for
\* ever. (The number of commands is bounded, so the clients always pause.)
CommandsMeetFate == []<>(\A s \in DOMAIN fate : fate[s] # "sent")

\* A connection that has ended is noticed and the bridge listens again, though
\* a reset shows only when telemetry is next forwarded.
ClientReplaced == conn \in {"fin", "rst"} ~> conn = "none"
=============================================================================
