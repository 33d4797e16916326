---------------------------- MODULE TcpTransport ----------------------------
(***************************************************************************)
(* rtc::impl::TcpTransport's send queue (libdatachannel/src/impl/          *)
(* tcptransport.cpp): what a send does to it under mSendMutex.  A message  *)
(* is the sequence of its units; the socket takes some and no more.        *)
(***************************************************************************)
EXTENDS Integers, Sequences, SequencesExt

\* A frame that is not a message of the application: one unit, which is not recorded.
Control == <<[message |-> 0, part |-> 1]>>
Message(m) == <<[message |-> m, part |-> 1], [message |-> m, part |-> 2]>>
Recorded(units) ==
    LET upTo[i \in 0 .. Len(units)] ==
            CASE i = 0 -> <<>>
              [] i # 0 /\ units[i].message = 0 -> upTo[i - 1]
              [] OTHER -> Append(upTo[i - 1], units[i])
    IN  upTo[Len(units)]

\* A socket takes Room units before it would block.
Socket(room) == [left |-> 0,         \* addresses not yet tried: mResolved
                 sock |-> "none",    \* mSock, and whether its connection is up
                 poll |-> "none",    \* what the poll service waits for
                 queue |-> <<>>,     \* mSendQueue
                 copy |-> <<>>,      \* the message that the poll thread is sending
                 out |-> <<>>,       \* units of messages that were sent
                 room |-> room,      \* units that the socket takes now
                 owner |-> "nobody"] \* who has mSendMutex and waits for the poll service

Least(a, b) == IF a < b THEN a ELSE b

\* A faulty Rest: a message that was sent in part is sent again from its beginning.
RestAgain(queue, n) ==
    LET ends == [i \in 0 .. Len(queue) |-> Len(FlattenSeq(SubSeq(queue, 1, i)))]
    IN  SubSeq(queue, Max({i \in DOMAIN ends : ends[i] <= n}) + 1, Len(queue))

\* What is left of a queue of messages when its first n units are sent: the
\* message in which they end is replaced by its own rest.
Rest(queue, n) ==
    LET ends == [i \in 0 .. Len(queue) |-> Len(FlattenSeq(SubSeq(queue, 1, i)))]
        whole == Max({i \in DOMAIN ends : ends[i] <= n})
    IN  IF whole = Len(queue) THEN <<>>
        ELSE <<SubSeq(queue[whole + 1], n - ends[whole] + 1, Len(queue[whole + 1]))>>
             \o SubSeq(queue, whole + 2, Len(queue))

\* send: the queue first, then the message, and what the socket does not take
\* waits.
Sent(tcp, message) ==
    LET all == Append(tcp.queue, message)
        units == FlattenSeq(all)
        n == Least(tcp.room, Len(units))
        rest == Rest(all, n)
    IN  [tcp EXCEPT !.queue = rest,
                    !.out = @ \o Recorded(SubSeq(units, 1, n)),
                    !.room = @ - n]
=============================================================================
