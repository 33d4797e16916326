-------------------------- MODULE SecureTransport --------------------------
(***************************************************************************)
(* rtc::impl::DtlsTransport and TlsTransport (libdatachannel/src/impl/     *)
(* dtlstransport.cpp, tlstransport.cpp) with each of their three back      *)
(* ends, from the thread that makes one to the end that is told upwards.   *)
(*                                                                         *)
(* The thread below pushes what arrives into a queue and asks for a call   *)
(* of doRecv, unless one is pending; workers run the calls one at a time;  *)
(* the handshake's timer asks for more of them; the application closes     *)
(* whenever it likes.  A thread is the list of steps it has still to take, *)
(* each one atomic access or one lock.  The TLS libraries, the peer and    *)
(* the network are external: what the peer sends is one of the Streams.    *)
(***************************************************************************)
EXTENDS Integers, Sequences, SequencesExt

CONSTANTS Flights,       \* messages of the peer that complete the handshake
          Room,          \* RECV_QUEUE_LIMIT
          MaxArrivals,   \* bound: datagrams that arrive, repeated ones included
          MaxFires       \* bound: calls of the timer within the handshake's 30 s

ASSUME BoundsAssumption ==
    /\ {Flights, Room} \subseteq Nat \ {0}
    /\ {MaxArrivals, MaxFires} \subseteq Nat

VARIABLES kind,        \* which of the two transports: "dtls" or "tls"
          library,     \* the back end the code was compiled for
          stream,      \* the records of the peer, in order
          arrived,     \* how many have arrived
          state,       \* Transport::mState
          member,      \* the owner holds the transport
          closed,      \* the owner's state is Closed
          heard,       \* the state callback is set
          registered,  \* the lower transport's receive callback is set
          arriving,    \* the message in incoming(), not yet in the queue
          queue,       \* mIncomingQueue
          stopping,    \* mIncomingQueue::mStopping
          pending,     \* mPendingRecvCount
          calls,       \* calls of doRecv queued in the thread pool
          timers,      \* calls of doRecv scheduled for later
          fires,       \* scheduled calls that came due
          rest,        \* records of a message that are not yet processed
          flights,     \* messages of the handshake processed
          keys,        \* DtlsSrtpTransport::mInitDone
          run,         \* steps left, for the thread below and the application's
          reader,      \* steps left for the worker that holds mRecvMutex
          told         \* what was told upwards: states, records, the null message

fixed == <<kind, library, stream>>
owner == <<member, closed, heard>>
input == <<arrived, registered, arriving>>
pool == <<pending, calls, timers, fires>>
session == <<rest, flights, keys>>
vars == <<fixed, owner, input, pool, session, state, queue, stopping, run, reader, told>>

Live == state \in {"Connecting", "Connected"}
Opening == [i \in 1 .. Flights |-> "flight"]

\* The peer connects and closes, breaks off, warns, or sends media as well.
Streams == { Opening \o tail : tail \in {<<"data", "data", "close">>, <<"warning", "data">>,
                                         <<"media", "fatal">>} }
           \cup { Tail(Opening) \o <<"fatal">> }

-----------------------------------------------------------------------------
(***************************************************************************)
(* What start() and doRecv() do in a way of their own with each back end:  *)
(* how the handshake begins, whether a call looks at the state first, what *)
(* follows on the handshake, what on an alert, and how the end begins.     *)
(***************************************************************************)
DtlsGnuTls == [begin |-> <<"check">>, looks |-> TRUE, alertStops |-> FALSE,
               established |-> <<"connected", "keys", "loop">>, closing |-> <<"end">>]
DtlsMbedTls == [begin |-> <<"check">>, looks |-> TRUE, alertStops |-> FALSE,
                established |-> <<"connected", "keys", "loop">>, closing |-> <<"end">>]
\* The keys are derived before the connection is reported, the alert of an end is one of its own.
DtlsOpenSsl == [begin |-> <<"schedule">>, looks |-> TRUE, alertStops |-> TRUE,
                established |-> <<"keys", "connected", "loop">>, closing |-> <<"shut", "end">>]
\* A call does not look at the state: one after the end reports Failed.
TlsGnuTls == [begin |-> <<"check">>, looks |-> FALSE, alertStops |-> FALSE,
              established |-> <<"connected", "loop">>, closing |-> <<"end">>]
TlsMbedTls == [begin |-> <<"check">>, looks |-> TRUE, alertStops |-> FALSE,
               established |-> <<"connected", "loop">>, closing |-> <<"end">>]
\* The handshake begins in start(), and nothing is received until the peer answers.
TlsOpenSsl == [begin |-> <<>>, looks |-> TRUE, alertStops |-> TRUE,
               established |-> <<"connected", "loop">>, closing |-> <<"shut", "end">>]

BackEnd ==
    CASE kind = "dtls" -> [gnutls |-> DtlsGnuTls, mbedtls |-> DtlsMbedTls, openssl |-> DtlsOpenSsl][library]
      [] kind = "tls" -> [gnutls |-> TlsGnuTls, mbedtls |-> TlsMbedTls, openssl |-> TlsOpenSsl][library]

Start == <<"register", "connecting">> \o BackEnd.begin
Stop == <<"unregister", "stopQueue", "check">>

Init ==
    /\ kind \in {"dtls", "tls"} /\ library \in {"gnutls", "mbedtls", "openssl"}
    /\ stream \in {s \in Streams : kind = "tls" => "media" \notin ToSet(s)}
    /\ arrived = 0 /\ registered = FALSE /\ arriving = <<>>
    /\ member = FALSE /\ closed = FALSE /\ heard = TRUE
    /\ state = "Disconnected" /\ queue = <<>> /\ stopping = FALSE
    /\ pending = 0 /\ calls = 0 /\ timers = 0 /\ fires = 0
    /\ rest = <<>> /\ flights = 0 /\ keys = FALSE
    /\ run = [below |-> <<"store">> \o Start \o <<"verify">>, app |-> <<"close", "take">>]
    /\ reader = <<>> /\ told = <<>>

Tell(what, record) ==
    told' = IF heard THEN Append(told, [what |-> what, record |-> record]) ELSE told

ChangeState(s) ==
    /\ state' = s
    /\ IF s # state THEN Tell(s, 0) ELSE UNCHANGED told

At(t, step) == run[t] # <<>> /\ Head(run[t]) = step
Continue(t, first) == run' = [run EXCEPT ![t] = first \o Tail(@)]
Threads == {"below", "app"}

-----------------------------------------------------------------------------
(***************************************************************************)
(* The owner: emplaceTransport on the thread below, which looks again when *)
(* the start is done, and closeTransports on the application's.            *)
(***************************************************************************)
Store ==
    /\ At("below", "store")
    /\ member' = TRUE
    /\ Continue("below", <<>>)
    /\ UNCHANGED <<fixed, closed, heard, input, pool, session, state, queue, stopping, reader, told>>

\* Faulty variant: the owner does not look again.
VerifyNothing ==
    /\ At("below", "verify")
    /\ Continue("below", <<>>)
    /\ UNCHANGED <<fixed, owner, input, pool, session, state, queue, stopping, reader, told>>

Verify ==
    /\ At("below", "verify")
    /\ Continue("below", IF closed THEN Stop ELSE <<>>)
    /\ member' = (member /\ ~closed)
    /\ UNCHANGED <<fixed, closed, heard, input, pool, session, state, queue, stopping, reader, told>>

Close ==
    /\ At("app", "close")
    /\ closed' = TRUE
    /\ Continue("app", <<>>)
    /\ UNCHANGED <<fixed, member, heard, input, pool, session, state, queue, stopping, reader, told>>

Take ==
    /\ At("app", "take")
    /\ heard' = (heard /\ ~member)
    /\ member' = FALSE
    /\ Continue("app", IF member THEN Stop ELSE <<>>)
    /\ UNCHANGED <<fixed, closed, input, pool, session, state, queue, stopping, reader, told>>

-----------------------------------------------------------------------------
(***************************************************************************)
(* start() and stop().  The receive callback is under a lock: taking it    *)
(* away waits for a message that is inside incoming().                     *)
(***************************************************************************)
Register ==
    /\ At("below", "register")
    /\ registered' = TRUE
    /\ Continue("below", <<>>)
    /\ UNCHANGED <<fixed, owner, arrived, arriving, pool, session, state, queue, stopping, reader, told>>

Connecting ==
    /\ At("below", "connecting")
    /\ ChangeState("Connecting")
    /\ Continue("below", <<>>)
    /\ UNCHANGED <<fixed, owner, input, pool, session, queue, stopping, reader>>

Later(n) == IF n < MaxFires THEN n + 1 ELSE n

Schedule ==
    /\ At("below", "schedule")
    /\ timers' = Later(timers)
    /\ Continue("below", <<>>)
    /\ UNCHANGED <<fixed, owner, input, pending, calls, fires, session, state, queue, stopping,
                   reader, told>>

Unregister(t) ==
    /\ At(t, "unregister")
    /\ "leave" \notin ToSet(run["below"])
    /\ registered' = FALSE
    /\ Continue(t, <<>>)
    /\ UNCHANGED <<fixed, owner, arrived, arriving, pool, session, state, queue, stopping, reader, told>>

StopQueue(t) ==
    /\ At(t, "stopQueue")
    /\ stopping' = TRUE
    /\ Continue(t, <<>>)
    /\ UNCHANGED <<fixed, owner, input, pool, session, state, queue, reader, told>>

(***************************************************************************)
(* enqueueRecv: the count is read, and then raised with the call queued.   *)
(***************************************************************************)
\* Faulty variant: a call counts as pending until it returns.
CheckRunning(t) ==
    /\ At(t, "check")
    /\ Continue(t, IF pending > 0 \/ reader # <<>> THEN <<>> ELSE <<"add">>)
    /\ UNCHANGED <<fixed, owner, input, pool, session, state, queue, stopping, reader, told>>

Check(t) ==
    /\ At(t, "check")
    /\ Continue(t, IF pending > 0 THEN <<>> ELSE <<"add">>)
    /\ UNCHANGED <<fixed, owner, input, pool, session, state, queue, stopping, reader, told>>

Add(t) ==
    /\ At(t, "add")
    /\ pending' = pending + 1
    /\ calls' = calls + 1
    /\ Continue(t, <<>>)
    /\ UNCHANGED <<fixed, owner, input, timers, fires, session, state, queue, stopping, reader, told>>

-----------------------------------------------------------------------------
(***************************************************************************)
(* incoming().  Datagrams are lost, repeated and reordered, and the peer   *)
(* sends its next record when it has seen the answer to the one before; a  *)
(* stream arrives in order, in pieces of one record or two, and may end    *)
(* (the null message) anywhere.                                            *)
(***************************************************************************)
Sent(i) == i <= flights + 1 \/ flights >= Flights - 1

Pieces ==
    IF kind = "dtls"
    THEN { <<i>> : i \in {j \in DOMAIN stream : Sent(j) /\ arrived < MaxArrivals} }
    ELSE { piece \in { [k \in 1 .. n |-> arrived + k] : n \in 1 .. 2 } :
             \A k \in DOMAIN piece : piece[k] \in DOMAIN stream /\ Sent(piece[k]) }

Arrive ==
    /\ run["below"] = <<>> /\ registered
    /\ \E piece \in Pieces :
          /\ arriving' = piece
          /\ arrived' = arrived + Len(piece)
    /\ run' = [run EXCEPT !["below"] = <<"push", "check", "leave">>]
    /\ UNCHANGED <<fixed, owner, registered, pool, session, state, queue, stopping, reader, told>>

\* The queue holds Room messages; after its stop it takes none.
Push ==
    /\ At("below", "push")
    /\ stopping \/ Len(queue) < Room
    /\ queue' = IF stopping THEN queue ELSE Append(queue, arriving)
    /\ arriving' = <<>>
    /\ Continue("below", <<>>)
    /\ UNCHANGED <<fixed, owner, arrived, registered, pool, session, state, stopping, reader, told>>

Leave ==
    /\ At("below", "leave")
    /\ Continue("below", <<>>)
    /\ UNCHANGED <<fixed, owner, input, pool, session, state, queue, stopping, reader, told>>

\* Only TCP ends: ICE never passes the null message up.
Ends ==
    /\ kind = "tls" /\ run["below"] = <<>> /\ registered /\ ~stopping
    /\ run' = [run EXCEPT !["below"] = <<"stopQueue", "check", "leave">>]
    /\ UNCHANGED <<fixed, owner, input, pool, session, state, queue, stopping, reader, told>>

-----------------------------------------------------------------------------
(***************************************************************************)
(* doRecv on a worker, under mRecvMutex.  Calls of the timer lower the     *)
(* count too, which nobody raised for them: it may be negative.            *)
(***************************************************************************)
Fire ==
    /\ timers > 0 /\ fires < MaxFires
    /\ timers' = timers - 1 /\ fires' = fires + 1
    /\ calls' = calls + 1
    /\ UNCHANGED <<fixed, owner, input, pending, session, state, queue, stopping, run, reader, told>>

\* Faulty variant: a call reads whatever the state.
IgnoresNothing == FALSE

Ignores == ~Live /\ BackEnd.looks

Begin ==
    /\ reader = <<>> /\ calls > 0
    /\ calls' = calls - 1
    /\ pending' = pending - 1
    /\ reader' = CASE Ignores -> <<"return">> [] Live -> <<"loop">> [] OTHER -> <<"end">>
    /\ UNCHANGED <<fixed, owner, input, timers, fires, session, state, queue, stopping, run, told>>

Reading == reader # <<>> /\ Head(reader) = "loop" /\ rest = <<>>

\* Media is told apart from records once its keys are there.
IsMedia(message) == keys /\ stream[Head(message)] = "media"

Pop ==
    /\ Reading /\ queue # <<>>
    /\ queue' = Tail(queue)
    /\ IF IsMedia(Head(queue))
       THEN Tell("media", Head(Head(queue))) /\ UNCHANGED rest
       ELSE rest' = Head(queue) /\ UNCHANGED told
    /\ UNCHANGED <<fixed, owner, input, pool, flights, keys, state, stopping, run, reader>>

\* Nothing more for now.  A handshake over datagrams is tried again later.
Again ==
    /\ Reading /\ queue = <<>> /\ ~stopping
    /\ IF kind = "dtls" /\ state = "Connecting"
       THEN fires < MaxFires /\ timers' = Later(timers)
       ELSE UNCHANGED timers
    /\ reader' = <<"return">>
    /\ UNCHANGED <<fixed, owner, input, pending, calls, fires, session, state, queue, stopping, run, told>>

TimedOut ==
    /\ Reading /\ queue = <<>> /\ ~stopping
    /\ kind = "dtls" /\ state = "Connecting" /\ fires > 0
    /\ reader' = <<"end">>
    /\ UNCHANGED <<fixed, owner, input, pool, session, state, queue, stopping, run, told>>

Stopped ==
    /\ Reading /\ queue = <<>> /\ stopping
    /\ reader' = BackEnd.closing
    /\ UNCHANGED <<fixed, owner, input, pool, session, state, queue, stopping, run, told>>

\* With OpenSSL any alert stops the queue, a warning too.
Alert == stopping' = (stopping \/ BackEnd.alertStops)

\* The library processes a record: in the handshake, records of a later epoch are dropped.
Handshake ==
    /\ reader # <<>> /\ Head(reader) = "loop" /\ rest # <<>> /\ state = "Connecting"
    /\ LET r == Head(rest)
           next == r = flights + 1 /\ stream[r] = "flight"
           fatal == stream[r] = "fatal" /\ flights < Flights
       IN  /\ flights' = IF next THEN flights + 1 ELSE flights
           /\ rest' = IF fatal THEN <<>> ELSE Tail(rest)
           /\ reader' = CASE fatal -> <<"end">>
                          [] next /\ flights' = Flights -> BackEnd.established
                          [] OTHER -> reader
           /\ IF fatal THEN Alert ELSE UNCHANGED stopping
    /\ UNCHANGED <<fixed, owner, input, pool, keys, state, queue, run, told>>

Record ==
    /\ reader # <<>> /\ Head(reader) = "loop" /\ rest # <<>> /\ state = "Connected"
    /\ LET r == Head(rest)
           new == stream[r] = "data" /\ \A i \in DOMAIN told : told[i].record # r
       IN  /\ IF new THEN Tell("data", r) ELSE UNCHANGED told
           /\ rest' = IF stream[r] \in {"close", "fatal"} THEN <<>> ELSE Tail(rest)
           /\ reader' = CASE stream[r] = "close" -> BackEnd.closing
                          [] stream[r] = "fatal" -> <<"end">>
                          [] OTHER -> reader
           /\ IF stream[r] \in {"close", "fatal", "warning"} THEN Alert ELSE UNCHANGED stopping
    /\ UNCHANGED <<fixed, owner, input, pool, flights, keys, state, queue, run>>

-----------------------------------------------------------------------------
Does(step) == reader # <<>> /\ Head(reader) = step

Return ==
    /\ Does("return")
    /\ reader' = <<>>
    /\ UNCHANGED <<fixed, owner, input, pool, session, state, queue, stopping, run, told>>

PostHandshake ==
    /\ Does("keys")
    /\ keys' = ("media" \in ToSet(stream))
    /\ reader' = Tail(reader)
    /\ UNCHANGED <<fixed, owner, input, pool, rest, flights, state, queue, stopping, run, told>>

Connected ==
    /\ Does("connected")
    /\ ChangeState("Connected")
    /\ reader' = Tail(reader)
    /\ UNCHANGED <<fixed, owner, input, pool, session, queue, stopping, run>>

Shut ==
    /\ Does("shut")
    /\ stopping' = TRUE
    /\ reader' = Tail(reader)
    /\ UNCHANGED <<fixed, owner, input, pool, session, state, queue, run, told>>

End ==
    /\ Does("end")
    /\ ChangeState(IF state = "Connected" THEN "Disconnected" ELSE "Failed")
    /\ reader' = IF state = "Connected" THEN <<"null">> ELSE <<>>
    /\ UNCHANGED <<fixed, owner, input, pool, session, queue, stopping, run>>

TellNull ==
    /\ Does("null")
    /\ Tell("null", 0)
    /\ reader' = <<>>
    /\ UNCHANGED <<fixed, owner, input, pool, session, state, queue, stopping, run>>

-----------------------------------------------------------------------------
Thread(t) == Unregister(t) \/ StopQueue(t) \/ Check(t) \/ Add(t)
Below == Store \/ Register \/ Connecting \/ Schedule \/ Verify \/ Push \/ Leave \/ Thread("below")
App == Close \/ Take \/ Thread("app")
Worker == \/ Begin \/ Pop \/ Again \/ TimedOut \/ Stopped \/ Handshake \/ Record
          \/ Return \/ PostHandshake \/ Connected \/ Shut \/ End \/ TellNull

Next == Below \/ App \/ Arrive \/ Ends \/ Fire \/ Worker

Fairness == /\ WF_vars(Below) /\ WF_vars(Thread("app") \/ Take)
            /\ WF_vars(Worker) /\ WF_vars(Fire)

Spec == Init /\ [][Next]_vars /\ Fairness
-----------------------------------------------------------------------------
\* A message in the queue is read while the transport lives: the count of pending
\* calls never keeps away the one call that would read it (enqueueRecv, doRecv).
NothingStaysUnread == queue # <<>> /\ Live ~> queue = <<>> \/ ~Live

\* What is told upwards is the life of one connection: data only while connected, a stream's
\* in order, the null message once, at the end (changeState and recv in doRecv).
\* The TLS transport with GnuTLS may report Failed after that: see TlsGnuTls.
Lives == {<<"Connecting", "Connected", "Disconnected">>, <<"Connecting", "Failed">>}
         \cup IF ~BackEnd.looks
              THEN {<<"Connecting", "Connected", "Disconnected", "Failed">>} ELSE {}

ReportsAreInOrder ==
    LET said(what) == {i \in DOMAIN told : told[i].what = what}
        before(a, b) == \A i \in said(a), j \in said(b) : i < j
        states == {told[i].what : i \in DOMAIN told} \ {"data", "media", "null"}
    IN  /\ \E life \in Lives : \E n \in 0 .. Len(life) :
              /\ states = {life[k] : k \in 1 .. n}
              /\ \A k, l \in 1 .. n : k < l => before(life[k], life[l])
        /\ \A what \in {"data", "media"} : before("Connected", what) /\ before(what, "Disconnected")
        /\ before("Disconnected", "null") /\ before("Connected", "null")
        /\ \A i, j \in DOMAIN told :
              /\ told[i].what = told[j].what /\ told[i].what \notin {"data", "media"} => i = j
              /\ told[i].what = "data" /\ told[j].what = "data" /\ kind = "tls" /\ i < j
                    => told[i].record < told[j].record

\* Once the owner is closed the transport ends, whichever thread comes first: the peer is told, and
\* no worker comes back to it (emplaceTransport, closeTransports, stop).
StopEnds == closed ~> [](~Live)
=============================================================================
