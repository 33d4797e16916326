------------------------- MODULE SecureTransportProofs -------------------------
(***************************************************************************)
(* Proof that the reports of a secure transport are those of one           *)
(* connection, for every back end, any length of the handshake, any size   *)
(* of the queue and any number of arrivals and of calls of the timer.      *)
(*                                                                         *)
(* The owner that closes the transport takes the state callback away, and  *)
(* nothing is told from then on.  Until then the application does nothing  *)
(* to the transport, and the state is changed by start() before any call   *)
(* of doRecv exists, and by the one worker that is inside doRecv after     *)
(* that.  What was told so far follows from the state and from the steps   *)
(* that this worker has still to take.  The records of a stream are one    *)
(* line, from those that were told to the message that is coming in.       *)
(***************************************************************************)
EXTENDS SecureTransport, SequenceTheorems, TLAPS

Transports == {"dtls", "tls"}
Libraries == {"gnutls", "mbedtls", "openssl"}
States == {"Disconnected", "Connecting", "Connected", "Failed"}
Whats == States \union {"data", "media", "null"}
Reports == [what : Whats, record : Nat]
Messages == Seq(Nat) \ {<<>>}
Kinds == {"flight", "data", "close", "warning", "media", "fatal"}
Flags == BOOLEAN
Steps == {"store", "register", "connecting", "check", "schedule", "verify", "close", "take",
          "unregister", "stopQueue", "add", "push", "leave"}
Programs == Seq(Steps)

Typed == /\ kind \in Transports /\ library \in Libraries /\ state \in States
         /\ stream \in Seq(Kinds)
         /\ arrived \in Nat /\ arriving \in Seq(Nat) /\ queue \in Seq(Messages) /\ rest \in Seq(Nat)
         /\ told \in Seq(Reports) /\ keys \in Flags /\ run \in [Threads -> Programs]

\* The application has nothing to do but close and take the transport.
AppWaits == run["app"] \in {<<"close", "take">>, <<"take">>, <<>>}

\* The thread below: has it still to report Connecting?  Is there a message to push?
Ahead(s) == \E k \in 1 .. Len(s) :
               /\ s[k] = "connecting"
               /\ \A j \in 1 .. k - 1 : s[j] \in {"store", "register"}
               /\ \A j \in k + 1 .. Len(s) : s[j] \notin {"connecting", "push"}
Behind(s, message) == \A k \in 1 .. Len(s) :
               /\ s[k] # "connecting"
               /\ s[k] = "push" => k = 1 /\ message # <<>>

Early == /\ Ahead(run["below"]) /\ calls = 0 /\ timers = 0 /\ reader = <<>>
         /\ state = "Disconnected" /\ told = <<>> /\ keys = FALSE

\* The worker inside doRecv: the steps it has left, and the state they ask for.
Begun == {<<"connected", "keys", "loop">>, <<"keys", "connected", "loop">>, <<"connected", "loop">>}
Plans == Begun \union {<<>>, <<"return">>, <<"loop">>, <<"keys", "loop">>, <<"shut", "end">>,
                       <<"end">>, <<"null">>}
Reads ==
    /\ reader \in Plans
    /\ reader \in Begun => state = "Connecting"
    /\ reader = <<"keys", "loop">> => state = "Connected"
    /\ reader \in {<<"loop">>, <<"shut", "end">>} => Live
    /\ reader = <<"end">> => Live \/ ~BackEnd.looks
    /\ reader = <<"null">> => state = "Disconnected"
    /\ keys /\ state = "Connecting" => reader = <<"connected", "loop">>

\* What was told: in the order of a life, nothing twice but data and media.
Rank(what) == CASE what = "Connecting" -> 1 [] what = "Connected" -> 2
                [] what \in {"data", "media"} -> 3
                [] what = "Disconnected" -> 4 [] what = "null" -> 5 [] what = "Failed" -> 6
Ranked(t) == \A i, j \in 1 .. Len(t) : i < j =>
                \/ Rank(t[i].what) < Rank(t[j].what)
                \/ Rank(t[i].what) = 3 /\ Rank(t[j].what) = 3
Has(t, what) == \E i \in 1 .. Len(t) : t[i].what = what
Only(t, whats) == \A i \in 1 .. Len(t) : t[i].what \in whats
Meanwhile == {"Connecting", "Connected", "data", "media"}
Tells(t) ==
    /\ Ranked(t) /\ Has(t, "Connecting")
    /\ state = "Connecting" => Only(t, {"Connecting"})
    /\ state = "Connected" => Has(t, "Connected") /\ Only(t, Meanwhile)
    /\ state = "Disconnected" =>
          /\ Has(t, "Connected") /\ Has(t, "Disconnected")
          /\ Only(t, Meanwhile \union {"Disconnected", "null"})
          /\ reader = <<"null">> => ~Has(t, "null")
    /\ state = "Failed" =>
          /\ Has(t, "Failed")
          /\ \/ Only(t, {"Connecting", "Failed"})
             \/ ~BackEnd.looks /\ Has(t, "Connected") /\ Has(t, "Disconnected")

Under == Behind(run["below"], arriving) /\ Reads /\ Tells(told)

\* A stream: what was told, what is read, what is queued and what comes in.
Rising(s) == \A i, j \in 1 .. Len(s) : i < j => s[i] < s[j]
Over(n, s) == \A i \in 1 .. Len(s) : n < s[i]
Precedes(s, t) == \A i \in 1 .. Len(s) : Over(s[i], t)
Upto(s, n) == \A i \in 1 .. Len(s) : s[i] <= n
Lined(r, q, a, n) ==
    /\ Rising(r) /\ Rising(a) /\ Precedes(r, a) /\ Upto(r, n) /\ Upto(a, n)
    /\ \A i \in 1 .. Len(q) : Rising(q[i]) /\ Precedes(r, q[i]) /\ Precedes(q[i], a) /\ Upto(q[i], n)
    /\ \A i, j \in 1 .. Len(q) : i < j => Precedes(q[i], q[j])
IsData(t, i) == t[i].what = "data"
Past(t, r, q, a, n) ==
    \A i \in 1 .. Len(t) : IsData(t, i) =>
        /\ t[i].record <= n /\ Over(t[i].record, r) /\ Over(t[i].record, a)
        /\ \A k \in 1 .. Len(q) : Over(t[i].record, q[k])
DataRises(t) == \A i, j \in 1 .. Len(t) :
                   i < j /\ IsData(t, i) /\ IsData(t, j) => t[i].record < t[j].record
InLine(t, r, q, a, n) == Lined(r, q, a, n) /\ DataRises(t) /\ Past(t, r, q, a, n)
Ordered == kind = "tls" => InLine(told, rest, queue, arriving, arrived)

Story == Typed /\ AppWaits /\ (Early \/ Under) /\ Ordered

IInv == ReportsAreInOrder /\ (heard => Story)

-----------------------------------------------------------------------------
(***************************************************************************)
(* Sequences, and what the back ends have in common.                       *)
(***************************************************************************)
LEMMA HeadAndTail ==
  ASSUME NEW S, NEW s \in Seq(S), s # <<>>
  PROVE  /\ Len(s) \in Nat \ {0} /\ 1 \in 1 .. Len(s) /\ Head(s) = s[1] /\ Head(s) \in S
         /\ Tail(s) \in Seq(S) /\ Len(Tail(s)) = Len(s) - 1
         /\ \A i \in 1 .. Len(Tail(s)) :
               i + 1 \in 1 .. Len(s) /\ 1 < i + 1 /\ Tail(s)[i] = s[i + 1]
OBVIOUS

LEMMA Appended ==
  ASSUME NEW S, NEW s \in Seq(S), NEW e \in S
  PROVE  /\ Append(s, e) \in Seq(S) /\ Len(s) \in Nat /\ Len(Append(s, e)) = Len(s) + 1
         /\ \A i \in 1 .. Len(s) : i \in 1 .. Len(Append(s, e)) /\ Append(s, e)[i] = s[i]
         /\ Append(s, e)[Len(s) + 1] = e
         /\ \A i \in 1 .. Len(Append(s, e)) : i \in 1 .. Len(s) \/ i = Len(s) + 1
OBVIOUS

LEMMA Joined ==
  ASSUME NEW S, NEW s \in Seq(S), NEW t \in Seq(S)
  PROVE  /\ s \o t \in Seq(S) /\ Len(s) \in Nat /\ Len(t) \in Nat
         /\ \A i \in 1 .. Len(s \o t) :
               \/ i \in 1 .. Len(s) /\ (s \o t)[i] = s[i]
               \/ i - Len(s) \in 1 .. Len(t) /\ (s \o t)[i] = t[i - Len(s)]
OBVIOUS

Usual(b) == /\ b.begin \in {<<>>, <<"check">>, <<"schedule">>}
            /\ b.established \in Begun /\ b.closing \in {<<"end">>, <<"shut", "end">>}
            /\ b.looks \in Flags

LEMMA BackEndIs ==
  ASSUME kind \in Transports, library \in Libraries
  PROVE  Usual(BackEnd)
<1>1. BackEnd \in {DtlsGnuTls, DtlsMbedTls, DtlsOpenSsl, TlsGnuTls, TlsMbedTls, TlsOpenSsl}
  BY DEF BackEnd, Transports, Libraries
<1>2. Usual(DtlsGnuTls) BY DEF DtlsGnuTls, Usual, Begun, Flags
<1>3. Usual(DtlsMbedTls) BY DEF DtlsMbedTls, Usual, Begun, Flags
<1>4. Usual(DtlsOpenSsl) BY DEF DtlsOpenSsl, Usual, Begun, Flags
<1>5. Usual(TlsGnuTls) BY DEF TlsGnuTls, Usual, Begun, Flags
<1>6. Usual(TlsMbedTls) BY DEF TlsMbedTls, Usual, Begun, Flags
<1>7. Usual(TlsOpenSsl) BY DEF TlsOpenSsl, Usual, Begun, Flags
<1> QED BY <1>1, <1>2, <1>3, <1>4, <1>5, <1>6, <1>7

LEMMA SameBackEnd == ASSUME UNCHANGED fixed PROVE BackEnd' = BackEnd /\ Lives' = Lives
<1>1. kind' = kind /\ library' = library
  BY DEF fixed
<1>2. BackEnd' = BackEnd
  BY <1>1 DEF BackEnd
<1> QED BY <1>2 DEF Lives

\* The plans of the worker, step by step.
LEMMA PlansAre ==
  ASSUME NEW p \in Plans
  PROVE  /\ p # <<>> => Head(p) \in {"return", "loop", "keys", "connected", "shut", "end", "null"}
         /\ p # <<>> /\ Head(p) = "return" => p = <<"return">>
         /\ p # <<>> /\ Head(p) = "loop" => p = <<"loop">>
         /\ p # <<>> /\ Head(p) = "null" => p = <<"null">>
         /\ p # <<>> /\ Head(p) = "end" => p = <<"end">>
         /\ p # <<>> /\ Head(p) = "shut" => p = <<"shut", "end">> /\ Tail(p) = <<"end">>
         /\ p # <<>> /\ Head(p) = "keys" =>
               \/ p = <<"keys", "loop">> /\ Tail(p) = <<"loop">>
               \/ p = <<"keys", "connected", "loop">> /\ Tail(p) = <<"connected", "loop">>
         /\ p # <<>> /\ Head(p) = "connected" =>
               \/ p = <<"connected", "loop">> /\ Tail(p) = <<"loop">>
               \/ p = <<"connected", "keys", "loop">> /\ Tail(p) = <<"keys", "loop">>
<1>1. /\ Head(<<"return">>) = "return" /\ Head(<<"loop">>) = "loop" /\ Head(<<"null">>) = "null"
      /\ Head(<<"end">>) = "end"
  OBVIOUS
<1>2. /\ Head(<<"shut", "end">>) = "shut" /\ Tail(<<"shut", "end">>) = <<"end">>
      /\ Head(<<"keys", "loop">>) = "keys" /\ Tail(<<"keys", "loop">>) = <<"loop">>
      /\ Head(<<"connected", "loop">>) = "connected" /\ Tail(<<"connected", "loop">>) = <<"loop">>
  OBVIOUS
<1>3. /\ Head(<<"keys", "connected", "loop">>) = "keys"
      /\ Tail(<<"keys", "connected", "loop">>) = <<"connected", "loop">>
      /\ Head(<<"connected", "keys", "loop">>) = "connected"
      /\ Tail(<<"connected", "keys", "loop">>) = <<"keys", "loop">>
  OBVIOUS
<1>4. \/ p \in {<<>>, <<"return">>, <<"loop">>, <<"null">>, <<"end">>}
      \/ p \in {<<"shut", "end">>, <<"keys", "loop">>, <<"connected", "loop">>}
      \/ p \in {<<"keys", "connected", "loop">>, <<"connected", "keys", "loop">>}
  BY DEF Plans, Begun
<1>5. CASE p \in {<<>>, <<"return">>, <<"loop">>, <<"null">>, <<"end">>}
  BY <1>1, <1>5
<1>6. CASE p \in {<<"shut", "end">>, <<"keys", "loop">>, <<"connected", "loop">>}
  BY <1>2, <1>6
<1>7. CASE p \in {<<"keys", "connected", "loop">>, <<"connected", "keys", "loop">>}
  BY <1>3, <1>7
<1> QED BY <1>4, <1>5, <1>6, <1>7

LEMMA PlansDiffer ==
  /\ <<"loop">> \notin Begun /\ <<"keys", "loop">> \notin Begun /\ <<>> \notin Begun
  /\ <<"return">> \notin Begun /\ <<"end">> \notin Begun /\ <<"null">> \notin Begun
  /\ <<"shut", "end">> \notin Begun /\ <<"connected", "loop">> \in Begun
  /\ Begun \subseteq Plans
  /\ {<<>>, <<"return">>, <<"loop">>, <<"keys", "loop">>, <<"shut", "end">>,
      <<"end">>, <<"null">>} \subseteq Plans
BY DEF Begun, Plans

-----------------------------------------------------------------------------
(***************************************************************************)
(* What was told.                                                          *)
(***************************************************************************)
LEMMA Ranks ==
  /\ Rank("Connecting") = 1 /\ Rank("Connected") = 2 /\ Rank("data") = 3 /\ Rank("media") = 3
  /\ Rank("Disconnected") = 4 /\ Rank("null") = 5 /\ Rank("Failed") = 6
BY DEF Rank

LEMMA RanksDiffer ==
  /\ \A what \in Whats : Rank(what) \in 1 .. 6
  /\ \A what \in Whats : Rank(what) = 3 => what \in {"data", "media"}
  /\ \A a, b \in Whats : Rank(a) = Rank(b) => a = b \/ a \in {"data", "media"}
<1>1. \A what \in Whats : what \in {"Connecting", "Connected", "data", "media", "Disconnected",
                                    "null", "Failed"}
  BY DEF Whats, States
<1> QED BY <1>1, Ranks

\* One more report, which comes after all there are.
LEMMA OneMore ==
  ASSUME NEW t \in Seq(Reports), Ranked(t), NEW whats, Only(t, whats), NEW r \in Reports,
         \A w \in whats : Rank(w) < Rank(r.what) \/ (Rank(w) = 3 /\ Rank(r.what) = 3),
         NEW u, u = Append(t, r)
  PROVE  /\ u \in Seq(Reports) /\ Ranked(u) /\ Has(u, r.what) /\ Only(u, whats \union {r.what})
         /\ \A w : Has(t, w) => Has(u, w)
         /\ \A w : Has(u, w) => Has(t, w) \/ w = r.what
<1>1. /\ u \in Seq(Reports) /\ Len(t) \in Nat /\ Len(u) = Len(t) + 1
      /\ \A i \in 1 .. Len(t) : i \in 1 .. Len(u) /\ u[i] = t[i]
      /\ u[Len(t) + 1] = r /\ Len(t) + 1 \in 1 .. Len(u)
      /\ \A i \in 1 .. Len(u) : i \in 1 .. Len(t) \/ i = Len(t) + 1
  BY Appended
<1>2. Ranked(u)
  <2> SUFFICES ASSUME NEW i \in 1 .. Len(u), NEW j \in 1 .. Len(u), i < j
               PROVE  \/ Rank(u[i].what) < Rank(u[j].what)
                      \/ Rank(u[i].what) = 3 /\ Rank(u[j].what) = 3
    BY DEF Ranked
  <2>1. i \in 1 .. Len(t) /\ u[i] = t[i]
    BY <1>1
  <2>2. CASE j \in 1 .. Len(t)
    <3>1. u[j] = t[j]
      BY <1>1, <2>2
    <3> QED BY <2>1, <2>2, <3>1 DEF Ranked
  <2>3. CASE j = Len(t) + 1
    <3>1. u[j] = r /\ u[i].what \in whats
      BY <1>1, <2>1, <2>3 DEF Only
    <3> QED BY <3>1
  <2> QED BY <1>1, <2>2, <2>3
<1>3. Has(u, r.what) /\ \A w : Has(t, w) => Has(u, w)
  BY <1>1 DEF Has
<1>4. Only(u, whats \union {r.what})
  BY <1>1 DEF Only
<1>5. \A w : Has(u, w) => Has(t, w) \/ w = r.what
  BY <1>1 DEF Has
<1> QED BY <1>1, <1>2, <1>3, <1>4, <1>5

LEMMA ToldFacts ==
  ASSUME told \in Seq(Reports), Ranked(told)
  PROVE  /\ DOMAIN told = 1 .. Len(told) /\ Len(told) \in Nat
         /\ \A i \in DOMAIN told : told[i].what \in Whats
         /\ \A a, b \in Whats : Rank(a) < Rank(b) =>
               \A i \in {k \in DOMAIN told : told[k].what = a},
                  j \in {k \in DOMAIN told : told[k].what = b} : i < j
         /\ \A i, j \in DOMAIN told :
               told[i].what = told[j].what /\ told[i].what \notin {"data", "media"} => i = j
<1>1. DOMAIN told = 1 .. Len(told) /\ Len(told) \in Nat
  OBVIOUS
<1>2. \A i \in DOMAIN told : told[i].what \in Whats
  <2>1. \A i \in DOMAIN told : told[i] \in Reports
    BY <1>1
  <2>2. \A r \in Reports : r.what \in Whats
    BY DEF Reports
  <2> QED BY <2>1, <2>2
<1>3. ASSUME NEW a \in Whats, NEW b \in Whats, Rank(a) < Rank(b),
             NEW i \in DOMAIN told, NEW j \in DOMAIN told, told[i].what = a, told[j].what = b
      PROVE  i < j
  <2>1. Rank(a) \in 1 .. 6 /\ Rank(b) \in 1 .. 6
    BY RanksDiffer
  <2>2. ~(j < i)
    BY <1>1, <1>3, <2>1 DEF Ranked
  <2>3. i # j
    BY <1>3, <2>1
  <2> QED BY <1>1, <2>2, <2>3
<1>4. ASSUME NEW i \in DOMAIN told, NEW j \in DOMAIN told, told[i].what = told[j].what,
             told[i].what \notin {"data", "media"}
      PROVE  i = j
  <2>1. Rank(told[i].what) \in 1 .. 6 /\ Rank(told[i].what) # 3
    BY <1>2, <1>4, RanksDiffer
  <2>2. ~(i < j) /\ ~(j < i)
    BY <1>1, <1>4, <2>1 DEF Ranked
  <2> QED BY <1>1, <2>2
<1> QED BY <1>1, <1>2, <1>3, <1>4

\* The story so far is that of one connection.
LEMMA StoryIsTold ==
  ASSUME Typed, Early \/ Under, Ordered
  PROVE  ReportsAreInOrder
<1> DEFINE said(what) == {i \in DOMAIN told : told[i].what = what}
           before(a, b) == \A i \in said(a), j \in said(b) : i < j
           states == {told[i].what : i \in DOMAIN told} \ {"data", "media", "null"}
           Lived == \E life \in Lives : \E n \in 0 .. Len(life) :
                       /\ states = {life[k] : k \in 1 .. n}
                       /\ \A k, l \in 1 .. n : k < l => before(life[k], life[l])
<1>1. told \in Seq(Reports) /\ Ranked(told)
  BY DEF Typed, Early, Under, Tells, Ranked
<1>2. /\ DOMAIN told = 1 .. Len(told) /\ Len(told) \in Nat
      /\ \A i \in DOMAIN told : told[i].what \in Whats
      /\ \A a, b \in Whats : Rank(a) < Rank(b) => before(a, b)
      /\ \A i, j \in DOMAIN told :
            told[i].what = told[j].what /\ told[i].what \notin {"data", "media"} => i = j
  BY <1>1, ToldFacts
<1>3. /\ \A what \in {"data", "media"} : before("Connected", what) /\ before(what, "Disconnected")
      /\ before("Disconnected", "null") /\ before("Connected", "null")
      /\ before("Connecting", "Connected") /\ before("Connecting", "Disconnected")
      /\ before("Connecting", "Failed") /\ before("Connected", "Disconnected")
      /\ before("Connected", "Failed") /\ before("Disconnected", "Failed")
  <2>1. /\ "Connecting" \in Whats /\ "Connected" \in Whats /\ "data" \in Whats /\ "media" \in Whats
        /\ "Disconnected" \in Whats /\ "null" \in Whats /\ "Failed" \in Whats
    BY DEF Whats, States
  <2> HIDE DEF before
  <2> QED BY <1>2, <2>1, Ranks
<1>4. Lived
  <2>1. /\ <<"Connecting", "Connected", "Disconnected">> \in Lives
        /\ <<"Connecting", "Failed">> \in Lives
        /\ ~BackEnd.looks => <<"Connecting", "Connected", "Disconnected", "Failed">> \in Lives
    BY DEF Lives
  <2>0. ASSUME NEW life \in Lives, NEW n \in 0 .. Len(life), states = {life[k] : k \in 1 .. n},
               \A k, l \in 1 .. n : k < l => before(life[k], life[l])
        PROVE  Lived
    BY <2>0
  <2>2. CASE Early
    <3> DEFINE life == <<"Connecting", "Failed">>
    <3>1. states = {life[k] : k \in 1 .. 0}
      BY <2>2 DEF Early
    <3>2. life \in Lives /\ 0 \in 0 .. Len(life)
      BY <2>1
    <3>3. \A k, l \in 1 .. 0 : k < l => before(life[k], life[l])
      OBVIOUS
    <3> HIDE DEF life, states, before, Lived
    <3> QED BY <2>0, <3>1, <3>2, <3>3
  <2> SUFFICES ASSUME Under PROVE Lived
    BY <2>2
  <2>3. \A w : Has(told, w) <=> \E i \in DOMAIN told : told[i].what = w
    BY <1>2 DEF Has
  <2>4. \A w : w \in states <=> Has(told, w) /\ w \notin {"data", "media", "null"}
    BY <2>3
  <2>5. \A ws, w : Only(told, ws) /\ Has(told, w) => w \in ws
    BY DEF Only, Has
  <2>6. \A w \in states : w \in {"Connecting", "Connected", "Disconnected", "Failed"}
    BY <1>2, <2>3, <2>4 DEF Whats, States
  <2>7. Has(told, "Connecting") /\ state \in {"Connecting", "Connected", "Disconnected", "Failed"}
    BY DEF Under, Tells, Typed, States
  <2> HIDE DEF states, before
  <2>8. CASE states = {"Connecting"}
    <3> DEFINE life == <<"Connecting", "Connected", "Disconnected">>
    <3>1. states = {life[k] : k \in 1 .. 1} /\ 1 \in 0 .. Len(life) /\ life \in Lives
      BY <2>1, <2>8
    <3>2. \A k, l \in 1 .. 1 : k < l => before(life[k], life[l])
      OBVIOUS
    <3> HIDE DEF life, Lived
    <3> QED BY <2>0, <3>1, <3>2
  <2>9. CASE states = {"Connecting", "Connected"}
    <3> DEFINE life == <<"Connecting", "Connected", "Disconnected">>
    <3>1. states = {life[k] : k \in 1 .. 2} /\ 2 \in 0 .. Len(life) /\ life \in Lives
      BY <2>1, <2>9
    <3>2. \A k, l \in 1 .. 2 : k < l => before(life[k], life[l])
      BY <1>3
    <3> HIDE DEF life, Lived
    <3> QED BY <2>0, <3>1, <3>2
  <2>10. CASE states = {"Connecting", "Connected", "Disconnected"}
    <3> DEFINE life == <<"Connecting", "Connected", "Disconnected">>
    <3>1. states = {life[k] : k \in 1 .. 3} /\ 3 \in 0 .. Len(life) /\ life \in Lives
      BY <2>1, <2>10
    <3>2. \A k, l \in 1 .. 3 : k < l => before(life[k], life[l])
      BY <1>3
    <3> HIDE DEF life, Lived
    <3> QED BY <2>0, <3>1, <3>2
  <2>11. CASE states = {"Connecting", "Failed"}
    <3> DEFINE life == <<"Connecting", "Failed">>
    <3>1. states = {life[k] : k \in 1 .. 2} /\ 2 \in 0 .. Len(life) /\ life \in Lives
      BY <2>1, <2>11
    <3>2. \A k, l \in 1 .. 2 : k < l => before(life[k], life[l])
      BY <1>3
    <3> HIDE DEF life, Lived
    <3> QED BY <2>0, <3>1, <3>2
  <2>12. CASE states = {"Connecting", "Connected", "Disconnected", "Failed"} /\ ~BackEnd.looks
    <3> DEFINE life == <<"Connecting", "Connected", "Disconnected", "Failed">>
    <3>1. states = {life[k] : k \in 1 .. 4} /\ 4 \in 0 .. Len(life) /\ life \in Lives
      BY <2>1, <2>12
    <3>2. \A k, l \in 1 .. 4 : k < l => before(life[k], life[l])
      BY <1>3
    <3> HIDE DEF life, Lived
    <3> QED BY <2>0, <3>1, <3>2
  <2>13. CASE state = "Connecting"
    BY <2>4, <2>5, <2>7, <2>8, <2>13 DEF Under, Tells
  <2>14. CASE state = "Connected"
    <3>1. Has(told, "Connected") /\ Only(told, Meanwhile)
      BY <2>14 DEF Under, Tells
    <3>2. \A w : w \in states => w \in {"Connecting", "Connected"}
      BY <2>4, <2>5, <3>1 DEF Meanwhile
    <3>3. \A w \in {"Connecting", "Connected"} : w \in states
      BY <2>4, <2>7, <3>1
    <3>4. states = {"Connecting", "Connected"}
      BY <3>2, <3>3
    <3> QED BY <2>9, <3>4
  <2>15. CASE state = "Disconnected"
    <3>1. /\ Has(told, "Connected") /\ Has(told, "Disconnected")
          /\ Only(told, Meanwhile \union {"Disconnected", "null"})
      BY <2>15 DEF Under, Tells
    <3>2. \A w : w \in states => w \in {"Connecting", "Connected", "Disconnected"}
      BY <2>4, <2>5, <3>1 DEF Meanwhile
    <3>3. \A w \in {"Connecting", "Connected", "Disconnected"} : w \in states
      BY <2>4, <2>7, <3>1
    <3>4. states = {"Connecting", "Connected", "Disconnected"}
      BY <3>2, <3>3
    <3> QED BY <2>10, <3>4
  <2>16. CASE state = "Failed"
    <3>1. CASE Only(told, {"Connecting", "Failed"})
      <4>1. \A w : w \in states <=> w \in {"Connecting", "Failed"}
        BY <2>4, <2>5, <2>7, <2>16, <3>1 DEF Under, Tells
      <4>2. states = {"Connecting", "Failed"}
        BY <4>1
      <4> QED BY <2>11, <4>2
    <3>2. CASE ~BackEnd.looks /\ Has(told, "Connected") /\ Has(told, "Disconnected")
      <4>1. Has(told, "Failed")
        BY <2>16 DEF Under, Tells
      <4>2. \A w : w \in states <=> w \in {"Connecting", "Connected", "Disconnected", "Failed"}
        BY <2>4, <2>6, <2>7, <3>2, <4>1
      <4>3. states = {"Connecting", "Connected", "Disconnected", "Failed"}
        BY <4>2
      <4> QED BY <2>12, <3>2, <4>3
    <3> QED BY <2>16, <3>1, <3>2 DEF Under, Tells
  <2> QED BY <2>7, <2>13, <2>14, <2>15, <2>16
<1>5. \A i, j \in DOMAIN told :
         told[i].what = "data" /\ told[j].what = "data" /\ kind = "tls" /\ i < j
         => told[i].record < told[j].record
  BY <1>2 DEF Ordered, InLine, DataRises, IsData
<1> QED BY <1>2, <1>3, <1>4, <1>5 DEF ReportsAreInOrder

-----------------------------------------------------------------------------
(***************************************************************************)
(* The line of a stream's records.                                         *)
(***************************************************************************)
Shaped(t, r, q, a, n) == /\ t \in Seq(Reports) /\ r \in Seq(Nat) /\ q \in Seq(Messages)
                         /\ a \in Seq(Nat) /\ n \in Nat

LEMMA ShapedFacts ==
  ASSUME NEW t, NEW r, NEW q, NEW a, NEW n, Shaped(t, r, q, a, n)
  PROVE  /\ Len(t) \in Nat /\ Len(r) \in Nat /\ Len(q) \in Nat /\ Len(a) \in Nat /\ n \in Nat
         /\ \A i \in 1 .. Len(t) : t[i].record \in Nat
         /\ \A i \in 1 .. Len(r) : r[i] \in Nat
         /\ \A i \in 1 .. Len(a) : a[i] \in Nat
         /\ \A i \in 1 .. Len(q) : q[i] \in Seq(Nat) /\ q[i] # <<>> /\ Len(q[i]) \in Nat
         /\ \A i \in 1 .. Len(q) : \A j \in 1 .. Len(q[i]) : q[i][j] \in Nat
<1>1. \A i \in 1 .. Len(t) : t[i] \in Reports
  BY DEF Shaped
<1>2. \A i \in 1 .. Len(q) : q[i] \in Messages
  BY DEF Shaped
<1>3. \A i \in 1 .. Len(t) : t[i].record \in Nat
  BY <1>1 DEF Reports
<1>4. \A m \in Messages : m \in Seq(Nat) /\ m # <<>> /\ Len(m) \in Nat /\ \A j \in 1 .. Len(m) : m[j] \in Nat
  BY DEF Messages
<1>5. /\ Len(t) \in Nat /\ Len(r) \in Nat /\ Len(q) \in Nat /\ Len(a) \in Nat /\ n \in Nat
      /\ \A i \in 1 .. Len(r) : r[i] \in Nat
      /\ \A i \in 1 .. Len(a) : a[i] \in Nat
  BY DEF Shaped
<1> QED BY <1>2, <1>3, <1>4, <1>5

\* The worker takes the next message of the queue.
LEMMA NextMessage ==
  ASSUME NEW t, NEW r, NEW q, NEW a, NEW n, Shaped(t, r, q, a, n), InLine(t, r, q, a, n), q # <<>>
  PROVE  /\ Shaped(t, Head(q), Tail(q), a, n) /\ Head(Head(q)) \in Nat
         /\ InLine(t, Head(q), Tail(q), a, n)
         /\ Shaped(t, r, Tail(q), a, n) /\ InLine(t, r, Tail(q), a, n)
<1> DEFINE h == Head(q)
           l == Tail(q)
<1>1. /\ h \in Messages /\ l \in Seq(Messages) /\ h = q[1] /\ 1 \in 1 .. Len(q)
      /\ \A i \in 1 .. Len(l) : i + 1 \in 1 .. Len(q) /\ 1 < i + 1 /\ l[i] = q[i + 1]
      /\ Len(l) \in Nat
  BY HeadAndTail DEF Shaped
<1>2. h \in Seq(Nat) /\ Head(h) \in Nat
  BY <1>1 DEF Messages
<1>3. Shaped(t, h, l, a, n) /\ Shaped(t, r, l, a, n)
  BY <1>1, <1>2 DEF Shaped
<1> HIDE DEF h, l
<1>4. Lined(h, l, a, n)
  <2>1. Rising(h) /\ Rising(a) /\ Precedes(h, a) /\ Upto(h, n) /\ Upto(a, n)
    BY <1>1 DEF InLine, Lined
  <2>2. \A i \in 1 .. Len(l) :
           Rising(l[i]) /\ Precedes(h, l[i]) /\ Precedes(l[i], a) /\ Upto(l[i], n)
    BY <1>1 DEF InLine, Lined
  <2>3. \A i, j \in 1 .. Len(l) : i < j => Precedes(l[i], l[j])
    <3> SUFFICES ASSUME NEW i \in 1 .. Len(l), NEW j \in 1 .. Len(l), i < j
                 PROVE  Precedes(l[i], l[j])
      OBVIOUS
    <3>1. i + 1 < j + 1
      OBVIOUS
    <3> QED BY <1>1, <3>1 DEF InLine, Lined
  <2> QED BY <2>1, <2>2, <2>3 DEF Lined
<1>5. Lined(r, l, a, n)
  <2>1. \A i \in 1 .. Len(l) :
           Rising(l[i]) /\ Precedes(r, l[i]) /\ Precedes(l[i], a) /\ Upto(l[i], n)
    BY <1>1 DEF InLine, Lined
  <2> QED BY <1>4, <2>1 DEF InLine, Lined
<1>6. Past(t, h, l, a, n) /\ Past(t, r, l, a, n)
  BY <1>1 DEF InLine, Past
<1> QED BY <1>2, <1>3, <1>4, <1>5, <1>6 DEF InLine, h, l

\* The worker leaves the rest of a message, or its first record, or tells it.
LEMMA NextRecord ==
  ASSUME NEW t, NEW r, NEW q, NEW a, NEW n, Shaped(t, r, q, a, n), InLine(t, r, q, a, n), r # <<>>
  PROVE  /\ Shaped(t, Tail(r), q, a, n) /\ InLine(t, Tail(r), q, a, n)
         /\ Shaped(t, <<>>, q, a, n) /\ InLine(t, <<>>, q, a, n)
         /\ Head(r) \in Nat /\ Head(r) <= n /\ Over(Head(r), Tail(r)) /\ Over(Head(r), a)
         /\ \A k \in 1 .. Len(q) : Over(Head(r), q[k])
         /\ \A i \in 1 .. Len(t) : IsData(t, i) => t[i].record < Head(r)
<1> DEFINE h == Head(r)
           l == Tail(r)
<1>1. /\ h \in Nat /\ l \in Seq(Nat) /\ h = r[1] /\ 1 \in 1 .. Len(r) /\ Len(l) \in Nat
      /\ \A i \in 1 .. Len(l) : i + 1 \in 1 .. Len(r) /\ 1 < i + 1 /\ l[i] = r[i + 1]
  BY HeadAndTail DEF Shaped
<1>2. Shaped(t, l, q, a, n) /\ Shaped(t, <<>>, q, a, n)
  BY <1>1 DEF Shaped
<1> HIDE DEF h, l
<1>3. /\ h <= n /\ Over(h, l) /\ Over(h, a) /\ \A k \in 1 .. Len(q) : Over(h, q[k])
      /\ \A i \in 1 .. Len(t) : IsData(t, i) => t[i].record < h
  BY <1>1 DEF InLine, Lined, Past, Rising, Upto, Precedes, Over
<1>4. Lined(l, q, a, n)
  <2>1. Rising(l)
    <3> SUFFICES ASSUME NEW i \in 1 .. Len(l), NEW j \in 1 .. Len(l), i < j
                 PROVE  l[i] < l[j]
      BY DEF Rising
    <3>1. i + 1 < j + 1
      OBVIOUS
    <3> QED BY <1>1, <3>1 DEF InLine, Lined, Rising
  <2>2. Precedes(l, a) /\ Upto(l, n) /\ \A i \in 1 .. Len(q) : Precedes(l, q[i])
    BY <1>1 DEF InLine, Lined, Precedes, Upto
  <2> QED BY <2>1, <2>2 DEF InLine, Lined
<1>5. Lined(<<>>, q, a, n)
  BY DEF InLine, Lined, Rising, Precedes, Upto
<1>6. Past(t, l, q, a, n) /\ Past(t, <<>>, q, a, n)
  <2>1. \A m : Over(m, r) => Over(m, l) /\ Over(m, <<>>)
    BY <1>1 DEF Over
  <2> QED BY <2>1 DEF InLine, Past
<1> QED BY <1>1, <1>2, <1>3, <1>4, <1>5, <1>6 DEF InLine, h, l

\* A record is told: the one that the message begins with.
LEMMA RecordTold ==
  ASSUME NEW t, NEW r, NEW q, NEW a, NEW n, Shaped(t, r, q, a, n), InLine(t, r, q, a, n), r # <<>>,
         NEW u, u = Append(t, [what |-> "data", record |-> Head(r)]), NEW l, l \in {<<>>, Tail(r)}
  PROVE  Shaped(u, l, q, a, n) /\ InLine(u, l, q, a, n)
<1> DEFINE d == [what |-> "data", record |-> Head(r)]
<1>1. /\ Shaped(t, l, q, a, n) /\ InLine(t, l, q, a, n)
      /\ Head(r) \in Nat /\ Head(r) <= n /\ Over(Head(r), l) /\ Over(Head(r), a)
      /\ \A k \in 1 .. Len(q) : Over(Head(r), q[k])
      /\ \A i \in 1 .. Len(t) : IsData(t, i) => t[i].record < Head(r)
  <2>1. Over(Head(r), <<>>)
    BY DEF Over
  <2>2. CASE l = <<>>
    BY <2>1, <2>2, NextRecord
  <2>3. CASE l = Tail(r)
    BY <2>3, NextRecord
  <2> QED BY <2>2, <2>3
<1>2. d \in Reports /\ d.what = "data" /\ d.record = Head(r)
  BY <1>1 DEF Reports, Whats
<1> HIDE DEF d
<1>3. /\ u \in Seq(Reports) /\ Len(t) \in Nat /\ Len(u) = Len(t) + 1 /\ u[Len(t) + 1] = d
      /\ \A i \in 1 .. Len(t) : u[i] = t[i]
      /\ \A i \in 1 .. Len(u) : i \in 1 .. Len(t) \/ i = Len(t) + 1
  BY <1>2, Appended DEF Shaped, d
<1>4. \A i \in 1 .. Len(t) : IsData(u, i) => IsData(t, i)
  BY <1>3 DEF IsData
<1>5. Past(u, l, q, a, n)
  <2> SUFFICES ASSUME NEW i \in 1 .. Len(u), IsData(u, i)
               PROVE  /\ u[i].record <= n /\ Over(u[i].record, l) /\ Over(u[i].record, a)
                      /\ \A k \in 1 .. Len(q) : Over(u[i].record, q[k])
    BY DEF Past
  <2>1. CASE i \in 1 .. Len(t)
    BY <1>1, <1>3, <1>4, <2>1 DEF InLine, Past
  <2>2. CASE i = Len(t) + 1
    BY <1>1, <1>2, <1>3, <2>2
  <2> QED BY <1>3, <2>1, <2>2
<1>6. DataRises(u)
  <2> SUFFICES ASSUME NEW i \in 1 .. Len(u), NEW j \in 1 .. Len(u), i < j, IsData(u, i), IsData(u, j)
               PROVE  u[i].record < u[j].record
    BY DEF DataRises
  <2>1. i \in 1 .. Len(t) /\ u[i] = t[i] /\ IsData(t, i)
    BY <1>3, <1>4
  <2>2. CASE j \in 1 .. Len(t)
    BY <1>1, <1>3, <1>4, <2>1, <2>2 DEF InLine, DataRises
  <2>3. CASE j = Len(t) + 1
    BY <1>1, <1>2, <1>3, <2>1, <2>3
  <2> QED BY <1>3, <2>2, <2>3
<1> QED BY <1>1, <1>3, <1>5, <1>6 DEF Shaped, InLine

\* Any other report leaves the line as it is.
LEMMA OtherTold ==
  ASSUME NEW t, NEW r, NEW q, NEW a, NEW n, Shaped(t, r, q, a, n), InLine(t, r, q, a, n),
         NEW d \in Reports, d.what # "data", NEW u, u = Append(t, d)
  PROVE  Shaped(u, r, q, a, n) /\ InLine(u, r, q, a, n)
<1>1. /\ u \in Seq(Reports) /\ Len(t) \in Nat /\ Len(u) = Len(t) + 1 /\ u[Len(t) + 1] = d
      /\ \A i \in 1 .. Len(t) : u[i] = t[i]
      /\ \A i \in 1 .. Len(u) : i \in 1 .. Len(t) \/ i = Len(t) + 1
  BY Appended DEF Shaped
<1>2. \A i \in 1 .. Len(u) : IsData(u, i) => i \in 1 .. Len(t) /\ IsData(t, i) /\ u[i] = t[i]
  BY <1>1 DEF IsData
<1>3. Past(u, r, q, a, n)
  BY <1>2 DEF InLine, Past
<1>4. DataRises(u)
  BY <1>2 DEF InLine, DataRises
<1> QED BY <1>1, <1>3, <1>4 DEF Shaped, InLine

\* A message goes into the queue, or nowhere.
LEMMA MessagePushed ==
  ASSUME NEW t, NEW r, NEW q, NEW a, NEW n, Shaped(t, r, q, a, n), InLine(t, r, q, a, n), a # <<>>
  PROVE  /\ Shaped(t, r, Append(q, a), <<>>, n) /\ InLine(t, r, Append(q, a), <<>>, n)
         /\ Shaped(t, r, q, <<>>, n) /\ InLine(t, r, q, <<>>, n)
<1> DEFINE p == Append(q, a)
<1>1. /\ p \in Seq(Messages) /\ Len(q) \in Nat /\ Len(p) = Len(q) + 1
      /\ \A i \in 1 .. Len(q) : i \in 1 .. Len(p) /\ p[i] = q[i]
      /\ p[Len(q) + 1] = a
      /\ \A i \in 1 .. Len(p) : i \in 1 .. Len(q) \/ i = Len(q) + 1
  <2>1. a \in Messages /\ q \in Seq(Messages)
    BY DEF Shaped, Messages
  <2> QED BY <2>1, Appended
<1> HIDE DEF p
<1>2. /\ Shaped(t, r, p, <<>>, n) /\ Shaped(t, r, q, <<>>, n)
  BY <1>1 DEF Shaped
<1>3. /\ Rising(<<>>) /\ Upto(<<>>, n) /\ \A s : Precedes(s, <<>>)
      /\ \A m : Over(m, <<>>)
  BY DEF Rising, Upto, Precedes, Over
<1>4. Lined(r, q, <<>>, n)
  BY <1>3 DEF InLine, Lined
<1>5. Lined(r, p, <<>>, n)
  <2>1. \A i \in 1 .. Len(p) : Rising(p[i]) /\ Precedes(r, p[i]) /\ Upto(p[i], n)
    BY <1>1 DEF InLine, Lined
  <2>2. \A i, j \in 1 .. Len(p) : i < j => Precedes(p[i], p[j])
    <3> SUFFICES ASSUME NEW i \in 1 .. Len(p), NEW j \in 1 .. Len(p), i < j
                 PROVE  Precedes(p[i], p[j])
      OBVIOUS
    <3>1. i \in 1 .. Len(q) /\ p[i] = q[i]
      BY <1>1
    <3>2. CASE j \in 1 .. Len(q)
      <4>1. p[j] = q[j]
        BY <1>1, <3>2
      <4> QED BY <3>1, <3>2, <4>1 DEF InLine, Lined
    <3>3. CASE j = Len(q) + 1
      <4>1. p[j] = a
        BY <1>1, <3>3
      <4> QED BY <3>1, <4>1 DEF InLine, Lined
    <3> QED BY <1>1, <3>2, <3>3
  <2> QED BY <1>3, <2>1, <2>2 DEF InLine, Lined
<1>6. Past(t, r, q, <<>>, n)
  BY <1>3 DEF InLine, Past
<1>7. Past(t, r, p, <<>>, n)
  <2> SUFFICES ASSUME NEW i \in 1 .. Len(t), IsData(t, i)
               PROVE  \A k \in 1 .. Len(p) : Over(t[i].record, p[k])
    BY <1>3 DEF InLine, Past
  <2>1. Over(t[i].record, a) /\ \A k \in 1 .. Len(q) : Over(t[i].record, q[k])
    BY DEF InLine, Past
  <2> QED BY <1>1, <2>1
<1> QED BY <1>2, <1>4, <1>5, <1>6, <1>7 DEF InLine, p

\* The next records of a stream arrive.
NextRecords(n, m) == [k \in 1 .. m |-> n + k]

LEMMA NextRecordsAre ==
  ASSUME NEW n \in Nat, NEW m \in 1 .. 2, NEW b, b = NextRecords(n, m)
  PROVE  /\ m \in Nat /\ n + m \in Nat /\ b \in Seq(Nat) /\ Len(b) = m /\ b # <<>>
         /\ \A k \in 1 .. m : b[k] = n + k
<1>1. m \in Nat /\ n + m \in Nat /\ 1 \in 1 .. m
  OBVIOUS
<1>2. b \in [1 .. m -> Nat] /\ DOMAIN b = 1 .. m /\ \A k \in 1 .. m : b[k] = n + k
  BY <1>1 DEF NextRecords
<1>3. b \in Seq(Nat)
  BY <1>1, <1>2, SeqDef
<1>4. Len(b) \in Nat /\ 1 .. Len(b) = 1 .. m
  BY <1>2, <1>3
<1>5. Len(b) = m
  <2>1. \A k \in Nat : 1 <= k /\ k <= Len(b) <=> 1 <= k /\ k <= m
    BY <1>1, <1>4
  <2> QED BY <1>1, <1>4, <2>1
<1> QED BY <1>1, <1>2, <1>3, <1>5

LEMMA RecordsArrive ==
  ASSUME NEW t, NEW r, NEW q, NEW a, NEW n, Shaped(t, r, q, a, n), InLine(t, r, q, a, n),
         NEW m \in 1 .. 2, NEW b, b = NextRecords(n, m)
  PROVE  InLine(t, r, q, b, n + m)
<1>1. /\ n \in Nat /\ m \in Nat /\ n + m \in Nat /\ b \in Seq(Nat) /\ Len(b) = m /\ b # <<>>
      /\ \A k \in 1 .. m : b[k] = n + k
  BY NextRecordsAre DEF Shaped
<1>2. Rising(b) /\ Upto(b, n + m) /\ \A x \in Nat : x <= n => Over(x, b) /\ x <= n + m
  BY <1>1 DEF Rising, Upto, Over
<1>3. \A s \in Seq(Nat) : Upto(s, n) => Precedes(s, b) /\ Upto(s, n + m)
  <2> SUFFICES ASSUME NEW s \in Seq(Nat), Upto(s, n)
               PROVE  \A i \in 1 .. Len(s) : Over(s[i], b) /\ s[i] <= n + m
    BY DEF Precedes, Upto
  <2>1. \A i \in 1 .. Len(s) : s[i] \in Nat /\ s[i] <= n
    BY DEF Upto
  <2> QED BY <1>2, <2>1
<1>4. /\ r \in Seq(Nat) /\ \A i \in 1 .. Len(q) : q[i] \in Seq(Nat)
      /\ \A i \in 1 .. Len(t) : t[i].record \in Nat
  BY ShapedFacts DEF Shaped
<1>5. Lined(r, q, b, n + m)
  BY <1>2, <1>3, <1>4 DEF InLine, Lined
<1>6. Past(t, r, q, b, n + m)
  BY <1>2, <1>4 DEF InLine, Past
<1> QED BY <1>1, <1>5, <1>6 DEF InLine

-----------------------------------------------------------------------------
(***************************************************************************)
(* The programs of the two threads.                                        *)
(***************************************************************************)
LEMMA ContinueFacts ==
  ASSUME run \in [Threads -> Programs], NEW t \in Threads, run[t] # <<>>, NEW first \in Programs,
         Continue(t, first)
  PROVE  /\ run' \in [Threads -> Programs] /\ run'[t] = first \o Tail(run[t])
         /\ \A u \in Threads \ {t} : run'[u] = run[u]
<1>1. run[t] \in Seq(Steps) /\ first \in Seq(Steps)
  BY DEF Programs
<1>2. Tail(run[t]) \in Seq(Steps)
  BY <1>1
<1>3. first \o Tail(run[t]) \in Programs
  BY <1>1, <1>2 DEF Programs
<1>4. run' = [run EXCEPT ![t] = first \o Tail(run[t])]
  BY DEF Continue
<1> QED BY <1>3, <1>4

LEMMA NothingBefore ==
  ASSUME NEW s \in Programs, s # <<>>
  PROVE  <<>> \o Tail(s) = Tail(s) /\ Tail(s) \in Programs
<1>1. Tail(s) \in Seq(Steps)
  BY DEF Programs
<1> QED BY <1>1 DEF Programs

LEMMA AheadGoesOn ==
  ASSUME NEW s \in Programs, s # <<>>, Ahead(s)
  PROVE  /\ Head(s) \in {"store", "register", "connecting"}
         /\ Head(s) \in {"store", "register"} => Ahead(Tail(s))
         /\ Head(s) = "connecting" => \A m : Behind(Tail(s), m)
<1>1. /\ Len(s) \in Nat \ {0} /\ 1 \in 1 .. Len(s) /\ Head(s) = s[1]
      /\ Len(Tail(s)) = Len(s) - 1
      /\ \A i \in 1 .. Len(Tail(s)) : i + 1 \in 1 .. Len(s) /\ 1 < i + 1 /\ Tail(s)[i] = s[i + 1]
  BY HeadAndTail DEF Programs
<1>2. PICK k \in 1 .. Len(s) :
         /\ s[k] = "connecting"
         /\ \A j \in 1 .. k - 1 : s[j] \in {"store", "register"}
         /\ \A j \in k + 1 .. Len(s) : s[j] \notin {"connecting", "push"}
  BY DEF Ahead
<1> DEFINE l == Tail(s)
<1> HIDE DEF l
<1>3. CASE k = 1
  <2>1. \A j \in 1 .. Len(l) : l[j] \notin {"connecting", "push"}
    BY <1>1, <1>2, <1>3 DEF l
  <2> QED BY <1>1, <1>2, <1>3, <2>1 DEF Behind, l
<1>4. CASE k # 1
  <2>1. /\ k - 1 \in 1 .. Len(l) /\ 1 \in 1 .. k - 1
        /\ l[k - 1] = s[k]
    BY <1>1, <1>4 DEF l
  <2>2. \A j \in 1 .. (k - 1) - 1 : l[j] \in {"store", "register"}
    <3> TAKE j \in 1 .. (k - 1) - 1
    <3>1. j \in 1 .. Len(l) /\ j + 1 \in 1 .. k - 1
      BY <1>1 DEF l
    <3>2. l[j] = s[j + 1]
      BY <1>1, <3>1 DEF l
    <3> QED BY <1>2, <3>1, <3>2
  <2>3. \A j \in (k - 1) + 1 .. Len(l) : l[j] \notin {"connecting", "push"}
    <3> TAKE j \in (k - 1) + 1 .. Len(l)
    <3>1. j \in 1 .. Len(l) /\ j + 1 \in k + 1 .. Len(s)
      BY <1>1 DEF l
    <3>2. l[j] = s[j + 1]
      BY <1>1, <3>1 DEF l
    <3> QED BY <1>2, <3>1, <3>2
  <2>4. Ahead(l)
    BY <1>2, <2>1, <2>2, <2>3 DEF Ahead
  <2>5. s[1] \in {"store", "register"}
    BY <1>2, <2>1
  <2> QED BY <1>1, <2>4, <2>5 DEF l
<1> QED BY <1>3, <1>4

LEMMA BehindGoesOn ==
  ASSUME NEW s \in Programs, s # <<>>, NEW m, Behind(s, m), NEW first \in Programs,
         \A k \in 1 .. Len(first) : first[k] \notin {"connecting", "push"}, NEW n
  PROVE  Behind(first \o Tail(s), n)
<1> DEFINE l == Tail(s)
           p == first \o l
<1>1. /\ l \in Seq(Steps) /\ Len(l) = Len(s) - 1 /\ Len(s) \in Nat
      /\ \A i \in 1 .. Len(l) : i + 1 \in 1 .. Len(s) /\ 1 < i + 1 /\ l[i] = s[i + 1]
  BY HeadAndTail DEF Programs
<1>2. \A i \in 1 .. Len(l) : l[i] \notin {"connecting", "push"}
  BY <1>1 DEF Behind
<1> HIDE DEF l
<1>3. \A i \in 1 .. Len(p) : \/ i \in 1 .. Len(first) /\ p[i] = first[i]
                             \/ i - Len(first) \in 1 .. Len(l) /\ p[i] = l[i - Len(first)]
  BY <1>1, Joined DEF Programs
<1> HIDE DEF p
<1>4. \A i \in 1 .. Len(p) : p[i] \notin {"connecting", "push"}
  BY <1>2, <1>3
<1>5. Behind(p, n)
  BY <1>4 DEF Behind
<1> QED BY <1>5 DEF p, l

-----------------------------------------------------------------------------
(***************************************************************************)
(* Steps that neither tell, nor change the state or the line.              *)
(***************************************************************************)
Quiet == UNCHANGED <<kind, library, stream, state, told, keys, reader, arrived, arriving, queue, rest>>
Waits(r) == r["app"] \in {<<"close", "take">>, <<"take">>, <<>>}

LEMMA SameReads ==
  ASSUME UNCHANGED <<kind, library, state, told, keys, reader>>, Reads, Tells(told)
  PROVE  Reads' /\ Tells(told)'
<1>1. BackEnd' = BackEnd
  BY DEF BackEnd
<1>2. Live' = Live
  BY DEF Live
<1>3. Reads'
  BY <1>1, <1>2 DEF Reads
<1>4. Tells(told)'
  BY <1>1 DEF Tells, Ranked, Has, Only
<1> QED BY <1>3, <1>4

LEMMA QuietStep ==
  ASSUME Story, Quiet, run' \in [Threads -> Programs], Waits(run'),
         \/ Early /\ Ahead(run'["below"]) /\ calls' = 0 /\ timers' = 0
         \/ Under /\ Behind(run'["below"], arriving)
  PROVE  Story'
<1>1. Typed'
  BY DEF Story, Typed, Quiet
<1>2. AppWaits'
  BY DEF AppWaits, Waits
<1>3. Ordered'
  BY DEF Story, Quiet, Ordered, InLine, Lined, Past, DataRises
<1>4. CASE Early /\ Ahead(run'["below"]) /\ calls' = 0 /\ timers' = 0
  <2>1. Early'
    BY <1>4 DEF Early, Quiet, Ahead
  <2> QED BY <1>1, <1>2, <1>3, <2>1 DEF Story
<1>5. CASE Under /\ Behind(run'["below"], arriving)
  <2>1. Behind(run["below"], arriving)'
    BY <1>5 DEF Quiet, Behind
  <2>2. Reads' /\ Tells(told)'
    BY <1>5, SameReads DEF Under, Quiet
  <2>3. Under'
    BY <2>1, <2>2 DEF Under
  <2> QED BY <1>1, <1>2, <1>3, <2>3 DEF Story
<1> QED BY <1>4, <1>5

\* A step of the thread below: only the first two come before Connecting is told.
LEMMA BelowStep ==
  ASSUME Story, Quiet, NEW step, At("below", step), step # "connecting",
         NEW first \in Programs, \A k \in 1 .. Len(first) : first[k] \notin {"connecting", "push"},
         Continue("below", first),
         step \in {"store", "register"} => first = <<>> /\ calls' = calls /\ timers' = timers
  PROVE  Story'
<1>1. run \in [Threads -> Programs] /\ "below" \in Threads /\ "app" \in Threads /\ "app" # "below"
  BY DEF Story, Typed, Threads
<1>2. run["below"] \in Programs /\ run["below"] # <<>> /\ Head(run["below"]) = step
  BY <1>1 DEF At
<1>3. /\ run' \in [Threads -> Programs] /\ run'["below"] = first \o Tail(run["below"])
      /\ run'["app"] = run["app"]
  BY <1>1, <1>2, ContinueFacts
<1>4. Waits(run')
  BY <1>3 DEF Story, AppWaits, Waits
<1>5. CASE Early
  <2>1. step \in {"store", "register"} /\ Ahead(Tail(run["below"]))
    BY <1>2, <1>5, AheadGoesOn DEF Early
  <2>2. first \o Tail(run["below"]) = Tail(run["below"])
    BY <1>2, <2>1, NothingBefore
  <2>3. calls' = 0 /\ timers' = 0
    BY <1>5, <2>1 DEF Early
  <2>4. Ahead(run'["below"])
    BY <1>3, <2>1, <2>2
  <2> QED BY <1>3, <1>4, <1>5, <2>3, <2>4, QuietStep
<1>6. CASE Under
  <2>1. Behind(run'["below"], arriving)
    BY <1>2, <1>3, <1>6, BehindGoesOn DEF Under
  <2> QED BY <1>3, <1>4, <1>6, <2>1, QuietStep
<1> QED BY <1>5, <1>6 DEF Story

\* The application, while the callback is set, only closes and finds nothing to take.
LEMMA AppHeads ==
  ASSUME Story, NEW step, At("app", step)
  PROVE  /\ run["app"] # <<>>
         /\ \/ step = "close" /\ Tail(run["app"]) = <<"take">>
            \/ step = "take" /\ Tail(run["app"]) = <<>>
<1>1. run["app"] \in {<<"close", "take">>, <<"take">>} /\ Head(run["app"]) = step
  BY DEF Story, AppWaits, At
<1>2. /\ Head(<<"close", "take">>) = "close" /\ Tail(<<"close", "take">>) = <<"take">>
      /\ Head(<<"take">>) = "take" /\ Tail(<<"take">>) = <<>>
      /\ <<"close", "take">> # <<>> /\ <<"take">> # <<>>
  OBVIOUS
<1> QED BY <1>1, <1>2

LEMMA AppStep ==
  ASSUME Story, Quiet, NEW step, At("app", step), Continue("app", <<>>),
         calls' = calls, timers' = timers
  PROVE  Story'
<1>1. run \in [Threads -> Programs] /\ "below" \in Threads /\ "app" \in Threads /\ "app" # "below"
  BY DEF Story, Typed, Threads
<1>2. run["app"] \in Programs /\ run["app"] # <<>> /\ Tail(run["app"]) \in {<<"take">>, <<>>}
  BY <1>1, AppHeads
<1>3. <<>> \in Programs
  BY DEF Programs
<1>4. /\ run' \in [Threads -> Programs] /\ run'["app"] = <<>> \o Tail(run["app"])
      /\ run'["below"] = run["below"]
  BY <1>1, <1>2, <1>3, ContinueFacts
<1>5. run'["app"] = Tail(run["app"])
  BY <1>2, <1>4, NothingBefore
<1>6. Waits(run')
  BY <1>2, <1>5 DEF Waits
<1> QED BY <1>4, <1>6, QuietStep DEF Story, Early, Under

LEMMA ShortPrograms ==
  /\ <<>> \in Programs /\ \A k \in 1 .. Len(<<>>) : <<>>[k] \notin {"connecting", "push"}
  /\ <<"add">> \in Programs
  /\ \A k \in 1 .. Len(<<"add">>) : <<"add">>[k] \notin {"connecting", "push"}
  /\ Stop \in Programs /\ \A k \in 1 .. Len(Stop) : Stop[k] \notin {"connecting", "push"}
<1>1. <<>> \in Programs /\ <<"add">> \in Programs /\ Stop \in Programs
  BY DEF Programs, Steps, Stop
<1>2. Len(<<>>) = 0 /\ Len(<<"add">>) = 1 /\ <<"add">>[1] = "add"
  OBVIOUS
<1>3. Len(Stop) = 3 /\ Stop[1] = "unregister" /\ Stop[2] = "stopQueue" /\ Stop[3] = "check"
  BY DEF Stop
<1> HIDE DEF Stop
<1>4. 1 .. 0 = {} /\ 1 .. 1 = {1} /\ 1 .. 3 = {1, 2, 3}
  OBVIOUS
<1> QED BY <1>1, <1>2, <1>3, <1>4

LEMMA OwnerKeeps ==
  ASSUME Story, Store \/ Verify \/ Close
  PROVE  Story'
<1>1. CASE Store
  <2>1. Quiet /\ At("below", "store") /\ Continue("below", <<>>) /\ calls' = calls /\ timers' = timers
    BY <1>1 DEF Store, Quiet, fixed, owner, input, pool, session
  <2> QED BY <2>1, ShortPrograms, BelowStep
<1>2. CASE Verify
  <2>1. Quiet /\ At("below", "verify") /\ Continue("below", IF closed THEN Stop ELSE <<>>)
    BY <1>2 DEF Verify, Quiet, fixed, owner, input, pool, session
  <2>2. CASE closed
    BY <2>1, <2>2, ShortPrograms, BelowStep
  <2>3. CASE ~closed
    BY <2>1, <2>3, ShortPrograms, BelowStep
  <2> QED BY <2>2, <2>3
<1>3. CASE Close
  <2>1. Quiet /\ At("app", "close") /\ Continue("app", <<>>) /\ calls' = calls /\ timers' = timers
    BY <1>3 DEF Close, Quiet, fixed, owner, input, pool, session
  <2> QED BY <2>1, AppStep
<1> QED BY <1>1, <1>2, <1>3

\* The application takes a transport that is not there yet.
LEMMA TakeKeeps ==
  ASSUME Story, Take, heard'
  PROVE  Story'
<1>1. Quiet /\ At("app", "take") /\ Continue("app", <<>>) /\ calls' = calls /\ timers' = timers
  BY DEF Take, Quiet, fixed, owner, input, pool, session
<1> QED BY <1>1, AppStep

LEMMA StartKeeps ==
  ASSUME Story, Register \/ Schedule
  PROVE  Story'
<1>1. CASE Register
  <2>1. Quiet /\ At("below", "register") /\ Continue("below", <<>>) /\ calls' = calls /\ timers' = timers
    BY <1>1 DEF Register, Quiet, fixed, owner, input, pool, session
  <2> QED BY <2>1, ShortPrograms, BelowStep
<1>2. CASE Schedule
  <2>1. Quiet /\ At("below", "schedule") /\ Continue("below", <<>>)
    BY <1>2 DEF Schedule, Quiet, fixed, owner, input, pool, session
  <2> QED BY <2>1, ShortPrograms, BelowStep
<1> QED BY <1>1, <1>2

\* The steps of stop() and of enqueueRecv: the application has none of them yet.
LEMMA ThreadKeeps ==
  ASSUME Story, NEW t \in Threads, Thread(t)
  PROVE  Story'
<1>1. PICK step \in {"unregister", "stopQueue", "check", "add"} : At(t, step)
  BY DEF Thread, Unregister, StopQueue, Check, Add
<1>2. t = "below"
  <2>1. t # "app"
    BY <1>1, AppHeads
  <2> QED BY <2>1 DEF Threads
<1>3. CASE Unregister(t)
  <2>1. Quiet /\ At("below", "unregister") /\ Continue("below", <<>>)
    BY <1>2, <1>3 DEF Unregister, Quiet, fixed, owner, input, pool, session
  <2> QED BY <2>1, ShortPrograms, BelowStep
<1>4. CASE StopQueue(t)
  <2>1. Quiet /\ At("below", "stopQueue") /\ Continue("below", <<>>)
    BY <1>2, <1>4 DEF StopQueue, Quiet, fixed, owner, input, pool, session
  <2> QED BY <2>1, ShortPrograms, BelowStep
<1>5. CASE Check(t)
  <2>1. Quiet /\ At("below", "check") /\ Continue("below", IF pending > 0 THEN <<>> ELSE <<"add">>)
    BY <1>2, <1>5 DEF Check, Quiet, fixed, owner, input, pool, session
  <2>2. CASE pending > 0
    BY <2>1, <2>2, ShortPrograms, BelowStep
  <2>3. CASE ~(pending > 0)
    BY <2>1, <2>3, ShortPrograms, BelowStep
  <2> QED BY <2>2, <2>3
<1>6. CASE Add(t)
  <2>1. Quiet /\ At("below", "add") /\ Continue("below", <<>>)
    BY <1>2, <1>6 DEF Add, Quiet, fixed, owner, input, pool, session
  <2> QED BY <2>1, ShortPrograms, BelowStep
<1> QED BY <1>3, <1>4, <1>5, <1>6 DEF Thread

LEMMA LeaveKeeps ==
  ASSUME Story, Leave
  PROVE  Story'
<1>1. Quiet /\ At("below", "leave") /\ Continue("below", <<>>)
  BY DEF Leave, Quiet, fixed, owner, input, pool, session
<1> QED BY <1>1, ShortPrograms, BelowStep

\* A call that comes due was asked for after Connecting was told.
LEMMA FireKeeps ==
  ASSUME Story, Fire
  PROVE  Story'
<1>1. Quiet /\ run' = run /\ timers > 0
  BY DEF Fire, Quiet, fixed, owner, input, pool, session
<1>2. ~Early
  BY <1>1 DEF Early
<1>3. Under /\ Behind(run'["below"], arriving)
  BY <1>1, <1>2 DEF Story, Under
<1>4. run' \in [Threads -> Programs] /\ Waits(run')
  BY <1>1 DEF Story, Typed, AppWaits, Waits
<1> QED BY <1>1, <1>3, <1>4, QuietStep

\* A program that the thread below begins when it has none.
LEMMA BeginsBelow ==
  ASSUME Story, run["below"] = <<>>, NEW p, p \in Programs, run' = [run EXCEPT !["below"] = p]
  PROVE  /\ run' \in [Threads -> Programs] /\ run'["below"] = p /\ Waits(run') /\ Under
<1>1. run \in [Threads -> Programs] /\ "below" \in Threads /\ "app" \in Threads /\ "app" # "below"
  BY DEF Story, Typed, Threads
<1>2. run' \in [Threads -> Programs] /\ run'["below"] = p /\ run'["app"] = run["app"]
  BY <1>1
<1>3. ~Ahead(run["below"])
  BY DEF Ahead
<1> QED BY <1>2, <1>3 DEF Story, Early, AppWaits, Waits

LEMMA EndsKeeps ==
  ASSUME Story, Ends
  PROVE  Story'
<1> DEFINE p == <<"stopQueue", "check", "leave">>
<1>1. Quiet /\ run["below"] = <<>> /\ run' = [run EXCEPT !["below"] = p]
  BY DEF Ends, Quiet, fixed, owner, input, pool, session
<1>2. p \in Programs /\ Len(p) = 3 /\ p[1] = "stopQueue" /\ p[2] = "check" /\ p[3] = "leave"
  BY DEF Programs, Steps
<1>3. Behind(p, arriving)
  <2> HIDE DEF p
  <2>1. 1 .. 3 = {1, 2, 3}
    OBVIOUS
  <2> QED BY <1>2, <2>1 DEF Behind
<1> HIDE DEF p
<1>4. /\ run' \in [Threads -> Programs] /\ run'["below"] = p /\ Waits(run') /\ Under
  BY <1>1, <1>2, BeginsBelow
<1> QED BY <1>1, <1>3, <1>4, QuietStep

-----------------------------------------------------------------------------
(***************************************************************************)
(* What arrives and is pushed.                                             *)
(***************************************************************************)
LEMMA LineStep ==
  ASSUME Story, Under, UNCHANGED <<kind, library, stream, state, told, keys, reader, rest>>,
         arrived' \in Nat, arriving' \in Seq(Nat), queue' \in Seq(Messages),
         run' \in [Threads -> Programs], Waits(run'), Behind(run'["below"], arriving'),
         kind = "tls" => InLine(told, rest, queue', arriving', arrived')
  PROVE  Story'
<1>1. Typed' /\ AppWaits'
  BY DEF Story, Typed, AppWaits, Waits
<1>2. Behind(run["below"], arriving)'
  BY DEF Behind
<1>3. Reads' /\ Tells(told)'
  BY SameReads DEF Under
<1>4. Ordered'
  BY DEF Ordered, InLine, Lined, Past, DataRises
<1> QED BY <1>1, <1>2, <1>3, <1>4 DEF Story, Under

LEMMA ShapedLine ==
  ASSUME Story
  PROVE  /\ Shaped(told, rest, queue, arriving, arrived)
         /\ kind = "tls" => InLine(told, rest, queue, arriving, arrived)
BY DEF Story, Typed, Ordered, Shaped

LEMMA ArriveKeeps ==
  ASSUME Story, Arrive
  PROVE  Story'
<1> DEFINE p == <<"push", "check", "leave">>
<1>1. /\ UNCHANGED <<kind, library, stream, state, told, keys, reader, rest>> /\ queue' = queue
      /\ run["below"] = <<>> /\ run' = [run EXCEPT !["below"] = p]
  BY DEF Arrive, fixed, owner, pool, session
<1>2. PICK piece \in Pieces : arriving' = piece /\ arrived' = arrived + Len(piece)
  BY DEF Arrive
<1>3. p \in Programs /\ Len(p) = 3 /\ p[1] = "push" /\ p[2] = "check" /\ p[3] = "leave"
  BY DEF Programs, Steps
<1>4. piece # <<>> => Behind(p, piece)
  <2> HIDE DEF p
  <2>1. 1 .. 3 = {1, 2, 3}
    OBVIOUS
  <2> QED BY <1>3, <2>1 DEF Behind
<1> HIDE DEF p
<1>5. /\ run' \in [Threads -> Programs] /\ run'["below"] = p /\ Waits(run') /\ Under
  BY <1>1, <1>3, BeginsBelow
<1>6. kind \in Transports /\ stream \in Seq(Kinds) /\ queue \in Seq(Messages) /\ arrived \in Nat
  BY DEF Story, Typed
<1>7. CASE kind = "dtls"
  <2>1. PICK i \in DOMAIN stream : piece = <<i>>
    BY <1>2, <1>7 DEF Pieces
  <2>2. i \in Nat
    BY <1>6
  <2>3. piece \in Seq(Nat) /\ Len(piece) = 1 /\ piece # <<>>
    BY <2>1, <2>2
  <2>4. arrived' \in Nat
    BY <1>2, <1>6, <2>3
  <2> QED BY <1>1, <1>2, <1>4, <1>5, <1>6, <1>7, <2>3, <2>4, LineStep
<1>8. CASE kind = "tls"
  <2>1. piece \in {[k \in 1 .. n |-> arrived + k] : n \in 1 .. 2}
    BY <1>2, <1>8 DEF Pieces
  <2>2. PICK n \in 1 .. 2 : piece = NextRecords(arrived, n)
    BY <2>1 DEF NextRecords
  <2>3. /\ piece \in Seq(Nat) /\ piece # <<>> /\ Len(piece) = n /\ arrived + n \in Nat
        /\ InLine(told, rest, queue, piece, arrived + n)
    <3>1. /\ Shaped(told, rest, queue, arriving, arrived)
          /\ InLine(told, rest, queue, arriving, arrived)
      BY <1>8, ShapedLine
    <3>2. InLine(told, rest, queue, piece, arrived + n)
      BY <2>2, <3>1, RecordsArrive
    <3>3. piece \in Seq(Nat) /\ piece # <<>> /\ Len(piece) = n /\ arrived + n \in Nat
      BY <1>6, <2>2, NextRecordsAre
    <3> QED BY <3>2, <3>3
  <2> QED BY <1>1, <1>2, <1>4, <1>5, <1>6, <2>3, LineStep
<1> QED BY <1>6, <1>7, <1>8 DEF Transports

LEMMA PushKeeps ==
  ASSUME Story, Push
  PROVE  Story'
<1>1. /\ UNCHANGED <<kind, library, stream, state, told, keys, reader, rest>> /\ arrived' = arrived
      /\ At("below", "push") /\ Continue("below", <<>>) /\ arriving' = <<>>
      /\ queue' = IF stopping THEN queue ELSE Append(queue, arriving)
  BY DEF Push, fixed, owner, pool, session
<1>2. run \in [Threads -> Programs] /\ "below" \in Threads /\ "app" \in Threads /\ "app" # "below"
  BY DEF Story, Typed, Threads
<1>3. run["below"] \in Programs /\ run["below"] # <<>> /\ Head(run["below"]) = "push"
  BY <1>1, <1>2 DEF At
<1>4. Under
  <2>1. ~Early
    BY <1>3, AheadGoesOn DEF Early
  <2> QED BY <2>1 DEF Story
<1>5. /\ run' \in [Threads -> Programs] /\ run'["below"] = <<>> \o Tail(run["below"])
      /\ run'["app"] = run["app"]
  BY <1>1, <1>2, <1>3, ShortPrograms, ContinueFacts
<1>6. Behind(run'["below"], <<>>) /\ Waits(run')
  <2>1. Behind(run'["below"], <<>>)
    BY <1>3, <1>4, <1>5, ShortPrograms, BehindGoesOn DEF Under
  <2> QED BY <1>5, <2>1 DEF Story, AppWaits, Waits
<1>7. arriving # <<>>
  <2>1. 1 \in 1 .. Len(run["below"]) /\ run["below"][1] = "push"
    BY <1>3, HeadAndTail DEF Programs
  <2> QED BY <1>4, <2>1 DEF Under, Behind
<1>8. Append(queue, arriving) \in Seq(Messages) /\ queue \in Seq(Messages) /\ arrived \in Nat
  <2>1. arriving \in Messages /\ queue \in Seq(Messages) /\ arrived \in Nat
    BY <1>7 DEF Story, Typed, Messages
  <2> QED BY <2>1, Appended
<1>9. queue' \in Seq(Messages) /\ <<>> \in Seq(Nat)
  BY <1>1, <1>8
<1>10. kind = "tls" => InLine(told, rest, queue', <<>>, arrived)
  <2>1. CASE kind = "tls"
    <3>1. /\ Shaped(told, rest, queue, arriving, arrived)
          /\ InLine(told, rest, queue, arriving, arrived)
      BY <2>1, ShapedLine
    <3> QED BY <1>1, <1>7, <3>1, MessagePushed
  <2> QED BY <2>1
<1> QED BY <1>1, <1>4, <1>5, <1>6, <1>8, <1>9, <1>10, LineStep

-----------------------------------------------------------------------------
(***************************************************************************)
(* The worker inside doRecv.                                               *)
(***************************************************************************)
LatePlans == {<<"loop">>, <<"shut", "end">>, <<"end">>, <<"null">>}

LEMMA PlansApart ==
  /\ \A p \in {<<>>, <<"return">>} : p \notin Begun /\ p # <<"keys", "loop">> /\ p \notin LatePlans
  /\ \A p \in LatePlans : p \notin Begun /\ p # <<"keys", "loop">>
  /\ <<"keys", "loop">> \notin Begun
  /\ <<"loop">> \notin {<<"shut", "end">>, <<"end">>, <<"null">>}
  /\ <<"shut", "end">> \notin {<<"end">>, <<"null">>} /\ <<"end">> # <<"null">>
  /\ <<"connected", "loop">> \notin {<<"connected", "keys", "loop">>, <<"keys", "connected", "loop">>}
<1>1. \A p \in {<<>>, <<"return">>} : p \notin Begun /\ p # <<"keys", "loop">>
  BY DEF Begun
<1>2. \A p \in {<<>>, <<"return">>} : p \notin LatePlans
  BY DEF LatePlans
<1>3. \A p \in LatePlans : p \notin Begun /\ p # <<"keys", "loop">>
  BY DEF Begun, LatePlans
<1>4. /\ <<"keys", "loop">> \notin Begun
      /\ <<"connected", "loop">> \notin {<<"connected", "keys", "loop">>,
                                         <<"keys", "connected", "loop">>}
  BY DEF Begun
<1>5. /\ <<"loop">> \notin {<<"shut", "end">>, <<"end">>, <<"null">>}
      /\ <<"shut", "end">> \notin {<<"end">>, <<"null">>} /\ <<"end">> # <<"null">>
  OBVIOUS
<1> QED BY <1>1, <1>2, <1>3, <1>4, <1>5

\* The conditions of Reads, for each plan.
Ready(p, at, media, looks) ==
    /\ p \in Plans
    /\ \/ p \in {<<>>, <<"return">>}
       \/ p \in Begun /\ at = "Connecting"
       \/ p = <<"keys", "loop">> /\ at = "Connected"
       \/ p \in {<<"loop">>, <<"shut", "end">>} /\ at \in {"Connecting", "Connected"}
       \/ p = <<"end">> /\ (at \in {"Connecting", "Connected"} \/ ~looks)
       \/ p = <<"null">> /\ at = "Disconnected"
    /\ media /\ at = "Connecting" => p = <<"connected", "loop">>

LEMMA ReadyReads == Reads <=> Ready(reader, state, keys, BackEnd.looks)
<1>1. Live <=> state \in {"Connecting", "Connected"}
  BY DEF Live
<1>2. Ready(reader, state, keys, BackEnd.looks) => Reads
  BY <1>1, PlansApart DEF Ready, Reads, LatePlans
<1>3. Reads => Ready(reader, state, keys, BackEnd.looks)
  BY <1>1 DEF Ready, Reads, Plans
<1> QED BY <1>2, <1>3

LEMMA WorkerStep ==
  ASSUME Story, Under, UNCHANGED <<kind, library, stream, arrived, arriving, run>>,
         state' \in States, keys' \in Flags, queue' \in Seq(Messages), rest' \in Seq(Nat),
         told' \in Seq(Reports), Reads', Tells(told)',
         kind = "tls" => InLine(told', rest', queue', arriving, arrived)
  PROVE  Story'
<1>1. Typed' /\ AppWaits'
  BY DEF Story, Typed, AppWaits
<1>2. Behind(run["below"], arriving)'
  BY DEF Under, Behind
<1>3. Ordered'
  BY DEF Ordered, InLine, Lined, Past, DataRises
<1> QED BY <1>1, <1>2, <1>3 DEF Story, Under

LEMMA WorkerIsUnder == ASSUME Story, reader # <<>> PROVE Under
BY DEF Story, Early

\* The worker goes on without a report, and with the line as it is or shorter.
LEMMA WorkerTurns ==
  ASSUME Story, Under, UNCHANGED <<kind, library, stream, arrived, arriving, run, state, told>>,
         queue' \in Seq(Messages), rest' \in Seq(Nat), keys' \in Flags,
         Ready(reader', state, keys', BackEnd.looks), reader' # <<"null">>,
         kind = "tls" => InLine(told, rest', queue', arriving, arrived)
  PROVE  Story'
<1>1. BackEnd' = BackEnd
  BY DEF BackEnd
<1>2. Reads'
  <2>1. (Reads <=> Ready(reader, state, keys, BackEnd.looks))'
    BY ReadyReads, PTL
  <2> QED BY <1>1, <2>1
<1>3. Tells(told)'
  BY <1>1 DEF Under, Tells, Ranked, Has, Only
<1>4. state' \in States /\ told' \in Seq(Reports)
  BY DEF Story, Typed
<1>5. kind = "tls" => InLine(told', rest', queue', arriving, arrived)
  BY DEF InLine, Lined, Past, DataRises
<1> QED BY <1>2, <1>3, <1>4, <1>5, WorkerStep

\* What holds when the worker takes a step.
LEMMA WorkerHas ==
  ASSUME Story, Under
  PROVE  /\ Ready(reader, state, keys, BackEnd.looks) /\ Usual(BackEnd)
         /\ queue \in Seq(Messages) /\ rest \in Seq(Nat) /\ keys \in Flags
         /\ kind = "tls" => /\ Shaped(told, rest, queue, arriving, arrived)
                            /\ InLine(told, rest, queue, arriving, arrived)
         /\ \A p \in Plans \ {<<>>, <<"return">>} : reader = p =>
               /\ p \in Begun => state = "Connecting"
               /\ p = <<"keys", "loop">> => state = "Connected"
               /\ p \in {<<"loop">>, <<"shut", "end">>} => state \in {"Connecting", "Connected"}
               /\ p = <<"null">> => state = "Disconnected"
<1>1. Ready(reader, state, keys, BackEnd.looks)
  BY ReadyReads DEF Under
<1>2. Usual(BackEnd)
  BY BackEndIs DEF Story, Typed
<1>3. Live => state \in {"Connecting", "Connected"}
  BY DEF Live
<1> QED BY <1>1, <1>2, <1>3, ShapedLine DEF Story, Typed, Under, Reads

\* The plans a worker may have next.
LEMMA NextPlans ==
  ASSUME NEW at, NEW media, NEW looks
  PROVE  /\ ~(media /\ at = "Connecting") =>
               /\ Ready(<<>>, at, media, looks) /\ Ready(<<"return">>, at, media, looks)
               /\ at \in {"Connecting", "Connected"} \/ ~looks => Ready(<<"end">>, at, media, looks)
               /\ at \in {"Connecting", "Connected"} =>
                     /\ Ready(<<"loop">>, at, media, looks)
                     /\ Ready(<<"shut", "end">>, at, media, looks)
               /\ at = "Connecting" => \A p \in Begun : Ready(p, at, media, looks)
               /\ at = "Connected" => Ready(<<"keys", "loop">>, at, media, looks)
               /\ at = "Disconnected" => Ready(<<"null">>, at, media, looks)
         /\ at = "Connecting" => Ready(<<"connected", "loop">>, at, media, looks)
         /\ \A p \in Begun \union {<<>>, <<"return">>, <<"loop">>, <<"shut", "end">>, <<"end">>} :
               p # <<"null">>
<1>1. \A p \in Begun \union {<<>>, <<"return">>, <<"loop">>, <<"shut", "end">>, <<"end">>} :
         p # <<"null">>
  BY PlansDiffer
<1> QED BY <1>1, PlansDiffer DEF Ready

LEMMA BeginKeeps ==
  ASSUME Story, Begin
  PROVE  Story'
<1>1. /\ UNCHANGED <<kind, library, stream, arrived, arriving, run, state, told, queue, rest, keys>>
      /\ reader = <<>> /\ calls > 0
      /\ reader' = CASE Ignores -> <<"return">> [] Live -> <<"loop">> [] OTHER -> <<"end">>
  BY DEF Begin, fixed, owner, input, session
<1>2. Under
  BY <1>1 DEF Story, Early
<1>3. ~(keys /\ state = "Connecting")
  <2>1. <<>> # <<"connected", "loop">>
    OBVIOUS
  <2> QED BY <1>1, <1>2, <2>1, WorkerHas DEF Ready
<1>4. Ready(reader', state, keys, BackEnd.looks) /\ reader' # <<"null">>
  <2>1. Live <=> state \in {"Connecting", "Connected"}
    BY DEF Live
  <2>2. Ignores <=> ~Live /\ BackEnd.looks
    BY DEF Ignores
  <2>3. CASE Ignores
    BY <1>1, <1>3, <2>2, <2>3, NextPlans
  <2>4. CASE ~Ignores /\ Live
    BY <1>1, <1>3, <2>1, <2>4, NextPlans
  <2>5. CASE ~Ignores /\ ~Live
    BY <1>1, <1>3, <2>2, <2>5, NextPlans
  <2> QED BY <2>3, <2>4, <2>5
<1> QED BY <1>1, <1>2, <1>4, WorkerHas, WorkerTurns

\* A worker at the loop of doRecv, in the handshake or connected.
LEMMA AtTheLoop ==
  ASSUME Story, reader # <<>>, Head(reader) = "loop"
  PROVE  /\ Under /\ reader = <<"loop">> /\ state \in {"Connecting", "Connected"}
         /\ ~(keys /\ state = "Connecting")
<1>1. Under
  BY WorkerIsUnder
<1>2. reader = <<"loop">>
  <2>1. reader \in Plans
    BY <1>1 DEF Under, Reads
  <2> QED BY <2>1, PlansAre
<1>3. <<"loop">> # <<"connected", "loop">> /\ <<"loop">> \in Plans \ {<<>>, <<"return">>}
  BY DEF Plans
<1>4. state \in {"Connecting", "Connected"}
  BY <1>1, <1>2, <1>3, WorkerHas
<1>5. ~(keys /\ state = "Connecting")
  BY <1>1, <1>2, <1>3, WorkerHas DEF Ready
<1> QED BY <1>1, <1>2, <1>4, <1>5

\* There is no message to read: the call ends, or the connection does.
LEMMA NothingToReadKeeps ==
  ASSUME Story, Again \/ TimedOut \/ Stopped
  PROVE  Story'
<1>1. /\ UNCHANGED <<kind, library, stream, arrived, arriving, run, state, told, queue, rest, keys>>
      /\ reader # <<>> /\ Head(reader) = "loop"
      /\ reader' \in {<<"return">>, <<"end">>, BackEnd.closing}
  BY DEF Again, TimedOut, Stopped, Reading, fixed, owner, input, pool, session
<1>2. Under /\ state \in {"Connecting", "Connected"} /\ ~(keys /\ state = "Connecting")
  BY <1>1, AtTheLoop
<1>3. BackEnd.closing \in {<<"end">>, <<"shut", "end">>}
  BY <1>2, WorkerHas DEF Usual
<1>4. reader' \in {<<"return">>, <<"end">>, <<"shut", "end">>}
  BY <1>1, <1>3
<1>5. Ready(reader', state, keys, BackEnd.looks) /\ reader' # <<"null">>
  BY <1>2, <1>4, NextPlans
<1> QED BY <1>1, <1>2, <1>5, WorkerHas, WorkerTurns

LEMMA HandshakeKeeps ==
  ASSUME Story, Handshake
  PROVE  Story'
<1>1. /\ UNCHANGED <<kind, library, stream, arrived, arriving, run, state, told, queue, keys>>
      /\ reader # <<>> /\ Head(reader) = "loop" /\ rest # <<>> /\ state = "Connecting"
      /\ rest' \in {<<>>, Tail(rest)}
      /\ reader' \in {<<"end">>, BackEnd.established, reader}
  BY DEF Handshake, fixed, owner, input, pool, session
<1>2. Under /\ reader = <<"loop">> /\ ~(keys /\ state = "Connecting")
  BY <1>1, AtTheLoop
<1>3. /\ BackEnd.established \in Begun /\ rest \in Seq(Nat) /\ queue \in Seq(Messages)
      /\ keys \in Flags
      /\ kind = "tls" => /\ Shaped(told, rest, queue, arriving, arrived)
                         /\ InLine(told, rest, queue, arriving, arrived)
  BY <1>2, WorkerHas DEF Usual
<1>4. Ready(reader', state, keys, BackEnd.looks) /\ reader' # <<"null">>
  BY <1>1, <1>2, <1>3, NextPlans
<1>5. <<>> \in Seq(Nat) /\ Tail(rest) \in Seq(Nat)
  BY <1>1, <1>3, HeadAndTail
<1>6. rest' \in Seq(Nat) /\ (kind = "tls" => InLine(told, rest', queue, arriving, arrived))
  <2>1. CASE rest' = <<>>
    BY <1>1, <1>3, <1>5, <2>1, NextRecord
  <2>2. CASE rest' = Tail(rest)
    BY <1>1, <1>3, <1>5, <2>2, NextRecord
  <2> QED BY <1>1, <2>1, <2>2
<1> QED BY <1>1, <1>2, <1>3, <1>4, <1>5, <1>6, WorkerTurns

\* The worker's last steps that tell nothing, and the one that derives the keys.
LEMMA OtherStepsKeep ==
  ASSUME Story, Return \/ Shut \/ PostHandshake
  PROVE  Story'
<1>1. /\ UNCHANGED <<kind, library, stream, arrived, arriving, run, state, told, queue, rest>>
      /\ reader # <<>> /\ Head(reader) \in {"return", "shut", "keys"}
      /\ reader' = IF Head(reader) = "return" THEN <<>> ELSE Tail(reader)
      /\ Head(reader) # "keys" => keys' = keys
      /\ keys' \in {keys, "media" \in ToSet(stream)}
  BY DEF Return, Shut, PostHandshake, Does, fixed, owner, input, pool, session
<1>2. Under
  BY <1>1, WorkerIsUnder
<1>3. keys' \in Flags
  <2>1. keys \in Flags
    BY <1>2, WorkerHas
  <2>2. ("media" \in ToSet(stream)) \in BOOLEAN
    OBVIOUS
  <2>3. ("media" \in ToSet(stream)) \in Flags
    BY <2>2 DEF Flags
  <2>4. CASE keys' = keys
    BY <2>1, <2>4
  <2>5. CASE keys' = ("media" \in ToSet(stream))
    BY <2>3, <2>5, Zenon
  <2> QED BY <1>1, <2>4, <2>5
<1>4. reader \in Plans
  BY <1>2, WorkerHas DEF Ready
<1>5. /\ <<"return">> # <<"connected", "loop">> /\ <<"shut", "end">> # <<"connected", "loop">>
      /\ {<<"shut", "end">>, <<"keys", "loop">>, <<"keys", "connected", "loop">>}
            \subseteq Plans \ {<<>>, <<"return">>}
      /\ <<"keys", "connected", "loop">> \in Begun
  BY DEF Plans, Begun
<1>6. Ready(reader', state, keys', BackEnd.looks) /\ reader' # <<"null">>
  <2>1. CASE Head(reader) = "return"
    <3>1. reader = <<"return">> /\ reader' = <<>> /\ keys' = keys
      BY <1>1, <1>4, <2>1, PlansAre
    <3>2. ~(keys /\ state = "Connecting")
      BY <1>2, <1>5, <3>1, WorkerHas DEF Ready
    <3> QED BY <3>1, <3>2, NextPlans
  <2>2. CASE Head(reader) = "shut"
    <3>1. reader = <<"shut", "end">> /\ reader' = <<"end">> /\ keys' = keys
      BY <1>1, <1>4, <2>2, PlansAre
    <3>2. ~(keys /\ state = "Connecting")
      BY <1>2, <1>5, <3>1, WorkerHas DEF Ready
    <3>3. state \in {"Connecting", "Connected"}
      BY <1>2, <1>5, <3>1, WorkerHas
    <3> QED BY <3>1, <3>2, <3>3, NextPlans
  <2>3. CASE Head(reader) = "keys"
    <3>1. \/ reader = <<"keys", "loop">> /\ reader' = <<"loop">>
          \/ reader = <<"keys", "connected", "loop">> /\ reader' = <<"connected", "loop">>
      BY <1>1, <1>4, <2>3, PlansAre
    <3>2. CASE reader = <<"keys", "loop">> /\ reader' = <<"loop">>
      <4>1. state = "Connected"
        BY <1>2, <1>5, <3>2, WorkerHas
      <4> QED BY <3>2, <4>1, NextPlans
    <3>3. CASE reader = <<"keys", "connected", "loop">> /\ reader' = <<"connected", "loop">>
      <4>1. state = "Connecting"
        BY <1>2, <1>5, <3>3, WorkerHas
      <4>2. <<"connected", "loop">> # <<"null">>
        OBVIOUS
      <4> QED BY <3>3, <4>1, <4>2, NextPlans
    <3> QED BY <3>1, <3>2, <3>3
  <2> QED BY <1>1, <2>1, <2>2, <2>3
<1> QED BY <1>1, <1>2, <1>3, <1>6, WorkerHas, WorkerTurns

-----------------------------------------------------------------------------
(***************************************************************************)
(* The steps that tell.                                                    *)
(***************************************************************************)
LEMMA Reported ==
  ASSUME told \in Seq(Reports), Ranked(told), heard, NEW what \in Whats, NEW record \in Nat,
         Tell(what, record), NEW whats, Only(told, whats),
         \A w \in whats : Rank(w) < Rank(what) \/ (Rank(w) = 3 /\ Rank(what) = 3)
  PROVE  /\ told' \in Seq(Reports) /\ Ranked(told') /\ Has(told', what)
         /\ \A ws : whats \subseteq ws /\ what \in ws => Only(told', ws)
         /\ \A w : Has(told, w) => Has(told', w)
         /\ \A w : Has(told', w) => Has(told, w) \/ w = what
         /\ \A r, q, a, n : what # "data" /\ Shaped(told, r, q, a, n) /\ InLine(told, r, q, a, n)
               => InLine(told', r, q, a, n)
<1> DEFINE d == [what |-> what, record |-> record]
<1>1. d \in Reports /\ d.what = what /\ told' = Append(told, d)
  BY DEF Reports, Tell
<1> HIDE DEF d
<1>2. /\ told' \in Seq(Reports) /\ Ranked(told') /\ Has(told', d.what)
      /\ Only(told', whats \union {d.what})
      /\ \A w : Has(told, w) => Has(told', w)
      /\ \A w : Has(told', w) => Has(told, w) \/ w = d.what
  BY <1>1, OneMore
<1>3. \A r, q, a, n : what # "data" /\ Shaped(told, r, q, a, n) /\ InLine(told, r, q, a, n)
         => InLine(told', r, q, a, n)
  BY <1>1, OtherTold
<1>4. \A ws : whats \subseteq ws /\ what \in ws => Only(told', ws)
  BY <1>1, <1>2 DEF Only
<1> QED BY <1>1, <1>2, <1>3, <1>4

\* What a step tells is the last of the story: the facts of Tells for the next state.
LEMMA TellsNext ==
  ASSUME told' \in Seq(Reports), Ranked(told'), Has(told', "Connecting"),
         \/ state' = "Connecting" /\ Only(told', {"Connecting"})
         \/ state' = "Connected" /\ Has(told', "Connected") /\ Only(told', Meanwhile)
         \/ /\ state' = "Disconnected" /\ Has(told', "Connected") /\ Has(told', "Disconnected")
            /\ Only(told', Meanwhile \union {"Disconnected", "null"})
            /\ reader' = <<"null">> => ~Has(told', "null")
         \/ /\ state' = "Failed" /\ Has(told', "Failed")
            /\ \/ Only(told', {"Connecting", "Failed"})
               \/ ~BackEnd.looks /\ Has(told', "Connected") /\ Has(told', "Disconnected"),
         UNCHANGED <<kind, library>>
  PROVE  Tells(told)'
<1>1. BackEnd' = BackEnd
  BY DEF BackEnd
<1> QED BY <1>1 DEF Tells, Ranked, Has, Only

LEMMA ReadsNext ==
  ASSUME Ready(reader', state', keys', BackEnd.looks), UNCHANGED <<kind, library>>
  PROVE  Reads'
<1>1. BackEnd' = BackEnd
  BY DEF BackEnd
<1>2. (Reads <=> Ready(reader, state, keys, BackEnd.looks))'
  BY ReadyReads, PTL
<1> QED BY <1>1, <1>2

\* A set of reports that comes before another report.
LEMMA ComeBefore ==
  /\ \A w \in {"Connecting"} : Rank(w) < Rank("Connected") /\ Rank(w) < Rank("Failed")
  /\ \A w \in Meanwhile : Rank(w) < Rank("Disconnected")
  /\ \A w \in Meanwhile : Rank(w) < Rank("data") \/ (Rank(w) = 3 /\ Rank("data") = 3)
  /\ \A w \in Meanwhile : Rank(w) < Rank("media") \/ (Rank(w) = 3 /\ Rank("media") = 3)
  /\ \A w \in Meanwhile \union {"Disconnected"} : Rank(w) < Rank("null")
  /\ \A w \in Meanwhile \union {"Disconnected", "null"} : Rank(w) < Rank("Failed")
  /\ States \subseteq Whats /\ {"data", "media", "null"} \subseteq Whats
BY Ranks DEF Meanwhile, Whats

LEMMA OnlyMore ==
  /\ \A t, a, b : Only(t, a) /\ a \subseteq b => Only(t, b)
  /\ \A t, a, w : Only(t, a) /\ Has(t, w) => w \in a
  /\ \A t, a, w : Only(t, a) /\ ~Has(t, w) => Only(t, a \ {w})
BY DEF Only, Has

LEMMA ConnectingKeeps ==
  ASSUME Story, Connecting, heard
  PROVE  Story'
<1>1. /\ UNCHANGED <<kind, library, stream, arrived, arriving, reader, rest, keys, queue>>
      /\ At("below", "connecting") /\ Continue("below", <<>>)
      /\ state' = "Connecting"
      /\ state # "Connecting" => Tell("Connecting", 0)
  BY DEF Connecting, ChangeState, fixed, owner, input, pool, session
<1>2. run \in [Threads -> Programs] /\ "below" \in Threads /\ "app" \in Threads /\ "app" # "below"
  BY DEF Story, Typed, Threads
<1>3. run["below"] \in Programs /\ run["below"] # <<>> /\ Head(run["below"]) = "connecting"
  BY <1>1, <1>2 DEF At
<1>4. Early
  <2>1. 1 \in 1 .. Len(run["below"]) /\ run["below"][1] = "connecting"
    BY <1>3, HeadAndTail DEF Programs
  <2>2. ~Under
    BY <2>1 DEF Under, Behind
  <2> QED BY <2>2 DEF Story
<1>5. /\ run' \in [Threads -> Programs] /\ run'["below"] = <<>> \o Tail(run["below"])
      /\ run'["app"] = run["app"]
  BY <1>1, <1>2, <1>3, ShortPrograms, ContinueFacts
<1>6. Behind(run["below"], arriving)' /\ AppWaits'
  <2>1. run'["below"] = Tail(run["below"])
    BY <1>3, <1>5, NothingBefore
  <2>2. Behind(run'["below"], arriving')
    BY <1>3, <1>4, <2>1, AheadGoesOn DEF Early
  <2> QED BY <1>5, <2>2 DEF Behind, AppWaits, Story
<1>7. /\ told' \in Seq(Reports) /\ Ranked(told') /\ Has(told', "Connecting")
      /\ Only(told', {"Connecting"})
      /\ \A r, q, a, n : Shaped(told, r, q, a, n) /\ InLine(told, r, q, a, n)
               => InLine(told', r, q, a, n)
  <2>1. told \in Seq(Reports) /\ Ranked(told) /\ Only(told, {}) /\ Tell("Connecting", 0)
    BY <1>1, <1>4 DEF Early, Ranked, Only
  <2>2. {} \subseteq {"Connecting"} /\ "Connecting" \in Whats /\ "Connecting" # "data"
    BY DEF Whats, States
  <2>3. \A w \in {} : Rank(w) < Rank("Connecting") \/ (Rank(w) = 3 /\ Rank("Connecting") = 3)
    OBVIOUS
  <2> HIDE DEF Rank
  <2> QED BY <2>1, <2>2, <2>3, Reported
<1>8. Tells(told)'
  BY <1>1, <1>7, TellsNext
<1>9. Reads'
  <2>1. reader' = <<>> /\ ~keys'
    BY <1>1, <1>4 DEF Early
  <2>2. Ready(reader', state', keys', BackEnd.looks)
    BY <2>1, NextPlans
  <2> QED BY <1>1, <2>2, ReadsNext
<1>10. Typed'
  BY <1>1, <1>5, <1>7 DEF Story, Typed, States
<1>11. Ordered'
  <2>1. kind = "tls" => InLine(told', rest, queue, arriving, arrived)
    BY <1>7, ShapedLine
  <2> QED BY <1>1, <2>1 DEF Ordered, InLine, Lined, Past, DataRises
<1> QED BY <1>6, <1>8, <1>9, <1>10, <1>11 DEF Story, Under

\* What was told while the worker is in a state.
LEMMA ToldWhile ==
  ASSUME Story, Under
  PROVE  /\ told \in Seq(Reports) /\ Ranked(told) /\ Has(told, "Connecting")
         /\ state = "Connecting" => Only(told, {"Connecting"})
         /\ state = "Connected" => Has(told, "Connected") /\ Only(told, Meanwhile)
         /\ state = "Disconnected" =>
               /\ Has(told, "Connected") /\ Has(told, "Disconnected")
               /\ Only(told, Meanwhile \union {"Disconnected", "null"})
               /\ reader = <<"null">> => ~Has(told, "null")
BY DEF Story, Typed, Under, Tells

\* Data or media is told while the transport is connected, and it stays so.
LEMMA ContentTold ==
  ASSUME Story, Under, heard, state = "Connected", NEW what \in {"data", "media"},
         NEW record \in Nat, Tell(what, record), UNCHANGED <<kind, library, state>>
  PROVE  told' \in Seq(Reports) /\ Tells(told)'
<1>1. told \in Seq(Reports) /\ Ranked(told) /\ Has(told, "Connecting") /\ Has(told, "Connected")
      /\ Only(told, Meanwhile)
  BY ToldWhile
<1>2. what \in Whats /\ what \in Meanwhile
  BY DEF Whats, Meanwhile
<1>3. \A w \in Meanwhile : Rank(w) < Rank(what) \/ (Rank(w) = 3 /\ Rank(what) = 3)
  BY ComeBefore
<1> HIDE DEF Meanwhile
<1>4. /\ told' \in Seq(Reports) /\ Ranked(told') /\ Only(told', Meanwhile)
      /\ Has(told', "Connecting") /\ Has(told', "Connected")
  BY <1>1, <1>2, <1>3, Reported
<1> QED BY <1>4, TellsNext

LEMMA PopKeeps ==
  ASSUME Story, Pop, heard
  PROVE  Story'
<1>1. /\ UNCHANGED <<kind, library, stream, arrived, arriving, run, state, reader, keys>>
      /\ reader # <<>> /\ Head(reader) = "loop" /\ rest = <<>> /\ queue # <<>>
      /\ queue' = Tail(queue)
      /\ \/ keys /\ Tell("media", Head(Head(queue))) /\ rest' = rest
         \/ rest' = Head(queue) /\ told' = told
  BY DEF Pop, Reading, IsMedia, fixed, owner, input, pool, session
<1>2. Under /\ reader = <<"loop">> /\ state \in {"Connecting", "Connected"}
      /\ ~(keys /\ state = "Connecting")
  BY <1>1, AtTheLoop
<1>3. /\ queue \in Seq(Messages) /\ rest \in Seq(Nat) /\ keys \in Flags
      /\ kind = "tls" => /\ Shaped(told, rest, queue, arriving, arrived)
                         /\ InLine(told, rest, queue, arriving, arrived)
      /\ Ready(reader, state, keys, BackEnd.looks)
  BY <1>2, WorkerHas
<1>4. Tail(queue) \in Seq(Messages) /\ Head(queue) \in Seq(Nat) /\ Head(Head(queue)) \in Nat
  <2>1. Tail(queue) \in Seq(Messages) /\ Head(queue) \in Messages
    BY <1>1, <1>3, HeadAndTail
  <2>2. Head(queue) \in Seq(Nat) /\ Head(queue) # <<>>
    BY <2>1 DEF Messages
  <2> QED BY <2>1, <2>2, HeadAndTail
<1>5. kind = "tls" =>
         /\ InLine(told, Head(queue), Tail(queue), arriving, arrived)
         /\ Shaped(told, rest, Tail(queue), arriving, arrived)
         /\ InLine(told, rest, Tail(queue), arriving, arrived)
  <2> SUFFICES ASSUME kind = "tls"
               PROVE  /\ InLine(told, Head(queue), Tail(queue), arriving, arrived)
                      /\ Shaped(told, rest, Tail(queue), arriving, arrived)
                      /\ InLine(told, rest, Tail(queue), arriving, arrived)
    OBVIOUS
  <2>1. /\ Shaped(told, rest, queue, arriving, arrived)
        /\ InLine(told, rest, queue, arriving, arrived)
    BY <1>3
  <2> QED BY <1>1, <2>1, NextMessage
<1>6. CASE rest' = Head(queue) /\ told' = told
  <2>1. reader' # <<"null">>
    BY <1>1, <1>2
  <2> QED BY <1>1, <1>2, <1>3, <1>4, <1>5, <1>6, <2>1, WorkerTurns
<1>7. CASE keys /\ Tell("media", Head(Head(queue))) /\ rest' = rest
  <2>1. state = "Connected"
    BY <1>2, <1>7
  <2>2. told' \in Seq(Reports) /\ Tells(told)'
    BY <1>1, <1>2, <1>4, <1>7, <2>1, ContentTold
  <2>3. Reads'
    BY <1>1, <1>3, ReadsNext
  <2>4. kind = "tls" => InLine(told', rest, Tail(queue), arriving, arrived)
    <3>1. told \in Seq(Reports) /\ Ranked(told) /\ Only(told, Meanwhile)
      BY <1>2, <2>1, ToldWhile
    <3>2. \A w \in Meanwhile : Rank(w) < Rank("media") \/ (Rank(w) = 3 /\ Rank("media") = 3)
      BY ComeBefore
    <3>3. "media" \in Whats /\ "media" # "data"
      BY DEF Whats
    <3>4. \A r, q, a, n : Shaped(told, r, q, a, n) /\ InLine(told, r, q, a, n)
                             => InLine(told', r, q, a, n)
      BY <1>4, <1>7, <3>1, <3>2, <3>3, Reported
    <3> QED BY <1>5, <3>4
  <2>5. state' \in States /\ keys' \in Flags /\ queue' \in Seq(Messages) /\ rest' \in Seq(Nat)
    BY <1>1, <1>3, <1>4, <1>7 DEF Story, Typed
  <2>6. kind = "tls" => InLine(told', rest', queue', arriving, arrived)
    BY <1>1, <1>7, <2>4
  <2> QED BY <1>1, <1>2, <2>2, <2>3, <2>5, <2>6, WorkerStep
<1> QED BY <1>1, <1>6, <1>7

LEMMA RecordKeeps ==
  ASSUME Story, Record, heard
  PROVE  Story'
<1>1. /\ UNCHANGED <<kind, library, stream, arrived, arriving, run, state, queue, keys>>
      /\ reader # <<>> /\ Head(reader) = "loop" /\ rest # <<>> /\ state = "Connected"
      /\ rest' \in {<<>>, Tail(rest)}
      /\ reader' \in {<<"end">>, BackEnd.closing, reader}
      /\ Tell("data", Head(rest)) \/ told' = told
  BY DEF Record, fixed, owner, input, pool, session
<1>2. Under /\ reader = <<"loop">> /\ ~(keys /\ state = "Connecting")
  BY <1>1, AtTheLoop
<1>3. /\ BackEnd.closing \in {<<"end">>, <<"shut", "end">>} /\ rest \in Seq(Nat)
      /\ queue \in Seq(Messages) /\ keys \in Flags
      /\ kind = "tls" => /\ Shaped(told, rest, queue, arriving, arrived)
                         /\ InLine(told, rest, queue, arriving, arrived)
  BY <1>2, WorkerHas DEF Usual
<1>4. Ready(reader', state, keys, BackEnd.looks) /\ reader' # <<"null">>
  <2>1. reader' \in {<<"end">>, <<"shut", "end">>, <<"loop">>}
    BY <1>1, <1>2, <1>3
  <2> QED BY <1>1, <1>2, <2>1, NextPlans
<1>5. <<>> \in Seq(Nat) /\ Tail(rest) \in Seq(Nat) /\ Head(rest) \in Nat
  BY <1>1, <1>3, HeadAndTail
<1>6. rest' \in Seq(Nat)
  BY <1>1, <1>5
<1>7. CASE told' = told
  <2>1. kind = "tls" => InLine(told, rest', queue, arriving, arrived)
    <3>1. CASE rest' = <<>>
      BY <1>1, <1>3, <3>1, NextRecord
    <3>2. CASE rest' = Tail(rest)
      BY <1>1, <1>3, <3>2, NextRecord
    <3> QED BY <1>1, <3>1, <3>2
  <2> QED BY <1>1, <1>2, <1>3, <1>4, <1>6, <1>7, <2>1, WorkerTurns
<1>8. CASE Tell("data", Head(rest))
  <2>1. told' \in Seq(Reports) /\ Tells(told)'
    BY <1>1, <1>2, <1>5, <1>8, ContentTold
  <2>2. Reads'
    BY <1>1, <1>4, ReadsNext
  <2>3. kind = "tls" => InLine(told', rest', queue, arriving, arrived)
    <3>1. told' = Append(told, [what |-> "data", record |-> Head(rest)])
      BY <1>8 DEF Tell
    <3> QED BY <1>1, <1>3, <3>1, RecordTold
  <2>4. state' \in States /\ keys' \in Flags /\ queue' \in Seq(Messages)
    BY <1>1, <1>3 DEF Story, Typed
  <2>5. kind = "tls" => InLine(told', rest', queue', arriving, arrived)
    BY <1>1, <2>3
  <2> QED BY <1>1, <1>2, <1>6, <2>1, <2>2, <2>4, <2>5, WorkerStep
<1> QED BY <1>1, <1>7, <1>8

\* A change of the state, or the null message, is told and the line stays as it is.
LEMMA StateTold ==
  ASSUME Story, Under, UNCHANGED <<kind, library, stream, arrived, arriving, run, queue, rest, keys>>,
         state' \in States, told' \in Seq(Reports), Tells(told)',
         Ready(reader', state', keys, BackEnd.looks),
         \A r, q, a, n : Shaped(told, r, q, a, n) /\ InLine(told, r, q, a, n)
            => InLine(told', r, q, a, n)
  PROVE  Story'
<1>1. Reads'
  BY ReadsNext
<1>2. kind = "tls" => InLine(told', rest', queue', arriving, arrived)
  <2>1. kind = "tls" => InLine(told', rest, queue, arriving, arrived)
    BY ShapedLine
  <2> QED BY <2>1
<1>3. keys' \in Flags /\ queue' \in Seq(Messages) /\ rest' \in Seq(Nat)
  BY DEF Story, Typed
<1> QED BY <1>1, <1>2, <1>3, WorkerStep

LEMMA ConnectedKeeps ==
  ASSUME Story, Connected, heard
  PROVE  Story'
<1>1. /\ UNCHANGED <<kind, library, stream, arrived, arriving, run, queue, rest, keys>>
      /\ reader # <<>> /\ Head(reader) = "connected" /\ reader' = Tail(reader)
      /\ state' = "Connected"
      /\ state # "Connected" => Tell("Connected", 0)
  BY DEF Connected, ChangeState, Does, fixed, owner, input, pool, session
<1>2. Under /\ reader \in Plans
  BY <1>1, WorkerIsUnder DEF Under, Reads
<1>3. /\ reader \in Begun /\ reader' \in {<<"loop">>, <<"keys", "loop">>}
      /\ Begun \subseteq Plans \ {<<>>, <<"return">>}
  <2>1. \/ reader = <<"connected", "loop">> /\ Tail(reader) = <<"loop">>
        \/ reader = <<"connected", "keys", "loop">> /\ Tail(reader) = <<"keys", "loop">>
    BY <1>1, <1>2, PlansAre
  <2> QED BY <1>1, <2>1 DEF Begun, Plans
<1>4. state = "Connecting"
  BY <1>2, <1>3, WorkerHas
<1>5. /\ told' \in Seq(Reports) /\ Ranked(told') /\ Has(told', "Connecting")
      /\ Has(told', "Connected") /\ Only(told', Meanwhile)
      /\ \A r, q, a, n : Shaped(told, r, q, a, n) /\ InLine(told, r, q, a, n)
               => InLine(told', r, q, a, n)
  <2>1. told \in Seq(Reports) /\ Ranked(told) /\ Has(told, "Connecting")
        /\ Only(told, {"Connecting"}) /\ Tell("Connected", 0)
    BY <1>1, <1>2, <1>4, ToldWhile
  <2>2. {"Connecting"} \subseteq Meanwhile /\ "Connected" \in Meanwhile
    BY DEF Meanwhile
  <2>3. "Connected" \in Whats /\ "Connected" # "data"
    BY DEF Whats, States
  <2>4. \A w \in {"Connecting"} : Rank(w) < Rank("Connected")
    BY ComeBefore
  <2> QED BY <2>1, <2>2, <2>3, <2>4, Reported
<1>6. Tells(told)'
  BY <1>1, <1>5, TellsNext
<1>7. Ready(reader', state', keys, BackEnd.looks)
  BY <1>1, <1>3, NextPlans
<1>8. state' \in States
  BY <1>1 DEF States
<1> QED BY <1>1, <1>2, <1>5, <1>6, <1>7, <1>8, StateTold

LEMMA EndKeeps ==
  ASSUME Story, End, heard
  PROVE  Story'
<1>1. /\ UNCHANGED <<kind, library, stream, arrived, arriving, run, queue, rest, keys>>
      /\ reader # <<>> /\ Head(reader) = "end"
      /\ state' = IF state = "Connected" THEN "Disconnected" ELSE "Failed"
      /\ state' # state => Tell(state', 0)
      /\ state' = state => told' = told
      /\ reader' = IF state = "Connected" THEN <<"null">> ELSE <<>>
  BY DEF End, ChangeState, Does, fixed, owner, input, pool, session
<1>2. Under /\ reader = <<"end">>
  <2>1. Under /\ reader \in Plans
    BY <1>1, WorkerIsUnder DEF Under, Reads
  <2> QED BY <1>1, <2>1, PlansAre
<1>3. /\ ~(keys /\ state = "Connecting")
      /\ state \in {"Connecting", "Connected"} \/ ~BackEnd.looks
  <2>1. <<"end">> # <<"connected", "loop">>
    OBVIOUS
  <2>2. Live <=> state \in {"Connecting", "Connected"}
    BY DEF Live
  <2> QED BY <1>2, <2>1, <2>2 DEF Under, Reads
<1>4. state' \in States /\ state \in States
  BY <1>1 DEF States, Story, Typed
<1>5. Ready(reader', state', keys, BackEnd.looks)
  BY <1>1, NextPlans
<1>6. told \in Seq(Reports) /\ Ranked(told) /\ Has(told, "Connecting")
  BY <1>2, ToldWhile
<1>7. {"Disconnected", "Failed"} \subseteq Whats \ {"data"}
  BY DEF Whats, States
<1> HIDE DEF Rank, Meanwhile
<1>8. CASE state = "Connected"
  <2>1. Has(told, "Connected") /\ Only(told, Meanwhile)
    BY <1>2, <1>8, ToldWhile
  <2>2. \A w \in Meanwhile : Rank(w) < Rank("Disconnected")
    BY ComeBefore
  <2>3. Meanwhile \subseteq Meanwhile \union {"Disconnected"}
    OBVIOUS
  <2>4. state' = "Disconnected" /\ reader' = <<"null">> /\ Tell("Disconnected", 0)
    BY <1>1, <1>8
  <2>5. /\ told' \in Seq(Reports) /\ Ranked(told') /\ Has(told', "Disconnected")
        /\ Only(told', Meanwhile \union {"Disconnected"})
        /\ Has(told', "Connecting") /\ Has(told', "Connected")
        /\ \A r, q, a, n : Shaped(told, r, q, a, n) /\ InLine(told, r, q, a, n)
              => InLine(told', r, q, a, n)
    BY <1>6, <1>7, <2>1, <2>2, <2>3, <2>4, Reported
  <2>6. Only(told', Meanwhile \union {"Disconnected", "null"})
    BY <2>5 DEF Only
  <2>7. ~Has(told', "null")
    <3>1. "null" \notin Meanwhile \union {"Disconnected"}
      BY DEF Meanwhile
    <3> QED BY <2>5, <3>1, OnlyMore
  <2>8. Tells(told)'
    BY <1>1, <2>4, <2>5, <2>6, <2>7, TellsNext
  <2> QED BY <1>1, <1>2, <1>4, <1>5, <2>5, <2>8, StateTold
<1>9. CASE state = "Connecting"
  <2>1. Only(told, {"Connecting"})
    BY <1>2, <1>9, ToldWhile
  <2>2. \A w \in {"Connecting"} : Rank(w) < Rank("Failed")
    BY ComeBefore
  <2>3. state' = "Failed" /\ Tell("Failed", 0)
    BY <1>1, <1>9
  <2>4. /\ told' \in Seq(Reports) /\ Ranked(told') /\ Has(told', "Failed")
        /\ Only(told', {"Connecting", "Failed"}) /\ Has(told', "Connecting")
        /\ \A r, q, a, n : Shaped(told, r, q, a, n) /\ InLine(told, r, q, a, n)
              => InLine(told', r, q, a, n)
    BY <1>6, <1>7, <2>1, <2>2, <2>3, Reported
  <2>5. Tells(told)'
    BY <1>1, <2>3, <2>4, TellsNext
  <2> QED BY <1>1, <1>2, <1>4, <1>5, <2>4, <2>5, StateTold
<1>10. CASE state = "Disconnected"
  <2>1. /\ Has(told, "Connected") /\ Has(told, "Disconnected")
        /\ Only(told, Meanwhile \union {"Disconnected", "null"})
    BY <1>2, <1>10, ToldWhile
  <2>2. \A w \in Meanwhile \union {"Disconnected", "null"} : Rank(w) < Rank("Failed")
    BY ComeBefore
  <2>3. state' = "Failed" /\ Tell("Failed", 0) /\ ~BackEnd.looks
    BY <1>1, <1>3, <1>10
  <2>4. /\ told' \in Seq(Reports) /\ Ranked(told') /\ Has(told', "Failed")
        /\ Has(told', "Connecting") /\ Has(told', "Connected") /\ Has(told', "Disconnected")
        /\ \A r, q, a, n : Shaped(told, r, q, a, n) /\ InLine(told, r, q, a, n)
              => InLine(told', r, q, a, n)
    BY <1>6, <1>7, <2>1, <2>2, <2>3, Reported
  <2>5. Tells(told)'
    BY <1>1, <2>3, <2>4, TellsNext
  <2> QED BY <1>1, <1>2, <1>4, <1>5, <2>4, <2>5, StateTold
<1>11. CASE state = "Failed"
  <2>1. state' = state /\ told' = told
    BY <1>1, <1>11
  <2>2. Tells(told)'
    <3>1. BackEnd' = BackEnd
      BY <1>1 DEF BackEnd
    <3> QED BY <1>2, <1>11, <2>1, <3>1 DEF Under, Tells, Ranked, Has, Only
  <2> QED BY <1>1, <1>2, <1>4, <1>5, <1>6, <2>1, <2>2, StateTold
<1> QED BY <1>4, <1>8, <1>9, <1>10, <1>11 DEF States

LEMMA TellNullKeeps ==
  ASSUME Story, TellNull, heard
  PROVE  Story'
<1>1. /\ UNCHANGED <<kind, library, stream, arrived, arriving, run, queue, rest, keys, state>>
      /\ reader # <<>> /\ Head(reader) = "null" /\ reader' = <<>> /\ Tell("null", 0)
  BY DEF TellNull, Does, fixed, owner, input, pool, session
<1>2. Under /\ reader = <<"null">>
  <2>1. Under /\ reader \in Plans
    BY <1>1, WorkerIsUnder DEF Under, Reads
  <2> QED BY <1>1, <2>1, PlansAre
<1>3. state = "Disconnected"
  BY <1>2 DEF Under, Reads
<1> HIDE DEF Rank
<1>4. /\ told \in Seq(Reports) /\ Ranked(told) /\ Has(told, "Connecting")
      /\ Has(told, "Connected") /\ Has(told, "Disconnected")
      /\ Only(told, Meanwhile \union {"Disconnected"})
  <2>1. /\ Only(told, Meanwhile \union {"Disconnected", "null"}) /\ ~Has(told, "null")
        /\ told \in Seq(Reports) /\ Ranked(told) /\ Has(told, "Connecting")
        /\ Has(told, "Connected") /\ Has(told, "Disconnected")
    BY <1>2, <1>3, ToldWhile
  <2>2. Only(told, Meanwhile \union {"Disconnected"})
    BY <2>1 DEF Only, Has
  <2> QED BY <2>1, <2>2
<1>5. /\ told' \in Seq(Reports) /\ Ranked(told') /\ Has(told', "Connecting")
      /\ Has(told', "Connected") /\ Has(told', "Disconnected")
      /\ Only(told', Meanwhile \union {"Disconnected", "null"})
      /\ \A r, q, a, n : Shaped(told, r, q, a, n) /\ InLine(told, r, q, a, n)
            => InLine(told', r, q, a, n)
  <2>1. \A w \in Meanwhile \union {"Disconnected"} : Rank(w) < Rank("null")
    BY ComeBefore
  <2>2. "null" \in Whats /\ "null" # "data"
    BY DEF Whats
  <2>3. /\ Meanwhile \union {"Disconnected"} \subseteq Meanwhile \union {"Disconnected", "null"}
        /\ "null" \in Meanwhile \union {"Disconnected", "null"}
    OBVIOUS
  <2> HIDE DEF Meanwhile
  <2> QED BY <1>1, <1>4, <2>1, <2>2, <2>3, Reported
<1>6. Tells(told)'
  <2>1. reader' # <<"null">>
    BY <1>1
  <2> QED BY <1>1, <1>3, <1>5, <2>1, TellsNext
<1>7. Ready(reader', state', keys, BackEnd.looks)
  BY <1>1, <1>3, NextPlans
<1>8. state' \in States
  BY <1>1, <1>3 DEF States
<1> QED BY <1>1, <1>2, <1>5, <1>6, <1>7, <1>8, StateTold

-----------------------------------------------------------------------------
(***************************************************************************)
(* The specification.                                                      *)
(***************************************************************************)
LEMMA StreamsAre ==
  ASSUME BoundsAssumption, NEW s \in Streams
  PROVE  s \in Seq(Kinds)
<1>1. Flights \in Nat /\ Flights >= 1
  BY DEF BoundsAssumption
<1>2. Opening \in Seq(Kinds) /\ Opening # <<>>
  <2>1. "flight" \in Kinds
    BY DEF Kinds
  <2>2. Opening \in [1 .. Flights -> Kinds] /\ DOMAIN Opening = 1 .. Flights /\ 1 \in 1 .. Flights
    BY <1>1, <2>1 DEF Opening
  <2>3. Opening \in Seq(Kinds)
    BY <1>1, <2>2, SeqDef
  <2>4. DOMAIN <<>> # 1 .. Flights
    BY <2>2
  <2> QED BY <2>2, <2>3, <2>4
<1>3. Tail(Opening) \in Seq(Kinds)
  BY <1>2, HeadAndTail
<1>4. /\ <<"data", "data", "close">> \in Seq(Kinds) /\ <<"warning", "data">> \in Seq(Kinds)
      /\ <<"media", "fatal">> \in Seq(Kinds) /\ <<"fatal">> \in Seq(Kinds)
  BY DEF Kinds
<1> HIDE DEF Opening
<1>5. \A t \in Seq(Kinds) : Opening \o t \in Seq(Kinds) /\ Tail(Opening) \o t \in Seq(Kinds)
  BY <1>2, <1>3
<1>6. \/ \E t \in {<<"data", "data", "close">>, <<"warning", "data">>, <<"media", "fatal">>} :
            s = Opening \o t
      \/ s = Tail(Opening) \o <<"fatal">>
  BY DEF Streams
<1> QED BY <1>4, <1>5, <1>6

LEMMA BeginsAhead ==
  ASSUME NEW begin, begin \in {<<>>, <<"check">>, <<"schedule">>}, NEW p,
         p = <<"store">> \o (<<"register", "connecting">> \o begin) \o <<"verify">>
  PROVE  p \in Programs /\ Ahead(p)
<1> DEFINE start == <<"register", "connecting">> \o begin
           both == <<"store">> \o start
<1>1. /\ <<"store">> \in Seq(Steps) /\ <<"register", "connecting">> \in Seq(Steps)
      /\ <<"verify">> \in Seq(Steps) /\ begin \in Seq(Steps)
  <2>1. /\ <<"store">> \in Seq(Steps) /\ <<"register", "connecting">> \in Seq(Steps)
        /\ <<"verify">> \in Seq(Steps)
    BY DEF Steps
  <2>2. <<>> \in Seq(Steps) /\ <<"check">> \in Seq(Steps) /\ <<"schedule">> \in Seq(Steps)
    BY DEF Steps
  <2> QED BY <2>1, <2>2
<1>2. /\ Len(begin) \in {0, 1}
      /\ Len(begin) = 1 => begin[1] \in {"check", "schedule"}
  OBVIOUS
<1>3. /\ start \in Seq(Steps) /\ Len(start) = 2 + Len(begin)
      /\ start[1] = "register" /\ start[2] = "connecting"
      /\ Len(begin) = 1 => start[3] = begin[1]
  BY <1>1, <1>2
<1> HIDE DEF start
<1>4. /\ both \in Seq(Steps) /\ Len(both) = 3 + Len(begin)
      /\ both[1] = "store" /\ both[2] = "register" /\ both[3] = "connecting"
      /\ Len(begin) = 1 => both[4] = begin[1]
  BY <1>1, <1>2, <1>3
<1>5. p = both \o <<"verify">>
  BY DEF start
<1> HIDE DEF both
<1>6. /\ p \in Seq(Steps) /\ Len(p) = 4 + Len(begin)
      /\ p[1] = "store" /\ p[2] = "register" /\ p[3] = "connecting"
      /\ Len(begin) = 0 => p[4] = "verify"
      /\ Len(begin) = 1 => p[4] = begin[1] /\ p[5] = "verify"
  BY <1>1, <1>2, <1>4, <1>5
<1>7. 3 \in 1 .. Len(p) /\ \A j \in 1 .. 3 - 1 : p[j] \in {"store", "register"}
  BY <1>2, <1>6
<1>8. \A j \in 3 + 1 .. Len(p) : p[j] \notin {"connecting", "push"}
  <2>1. CASE Len(begin) = 0
    BY <1>6, <2>1
  <2>2. CASE Len(begin) = 1
    BY <1>2, <1>6, <2>2
  <2> QED BY <1>2, <2>1, <2>2
<1> QED BY <1>6, <1>7, <1>8 DEF Programs, Ahead

LEMMA InitIsStory ==
  ASSUME BoundsAssumption, Init
  PROVE  Story
<1>1. /\ kind \in Transports /\ library \in Libraries /\ stream \in Streams
      /\ arrived = 0 /\ arriving = <<>> /\ state = "Disconnected" /\ queue = <<>> /\ rest = <<>>
      /\ told = <<>> /\ keys = FALSE /\ reader = <<>> /\ calls = 0 /\ timers = 0
      /\ run = [below |-> <<"store">> \o Start \o <<"verify">>, app |-> <<"close", "take">>]
  BY DEF Init, Transports, Libraries
<1>2. BackEnd.begin \in {<<>>, <<"check">>, <<"schedule">>}
  BY <1>1, BackEndIs DEF Usual
<1>3. run["below"] = <<"store">> \o (<<"register", "connecting">> \o BackEnd.begin) \o <<"verify">>
  BY <1>1 DEF Start
<1>4. run["below"] \in Programs /\ Ahead(run["below"])
  BY <1>2, <1>3, BeginsAhead
<1>5. run["app"] = <<"close", "take">> /\ run["app"] \in Programs
  BY <1>1 DEF Programs, Steps
<1>6. run \in [Threads -> Programs]
  <2>1. DOMAIN run = Threads /\ run = [t \in Threads |-> run[t]]
    BY <1>1 DEF Threads
  <2> QED BY <1>4, <1>5, <2>1 DEF Threads
<1>7. stream \in Seq(Kinds)
  BY <1>1, StreamsAre
<1>8. Typed
  <2>1. <<>> \in Seq(Nat) /\ <<>> \in Seq(Messages) /\ <<>> \in Seq(Reports) /\ 0 \in Nat
    OBVIOUS
  <2>2. "Disconnected" \in States /\ FALSE \in Flags
    BY DEF States, Flags
  <2> QED BY <1>1, <1>6, <1>7, <2>1, <2>2 DEF Typed
<1>9. AppWaits /\ Early
  BY <1>1, <1>4, <1>5 DEF AppWaits, Early
<1>10. InLine(told, rest, queue, arriving, arrived)
  BY <1>1 DEF InLine, Lined, Past, DataRises, Rising, Precedes, Upto, Over
<1> QED BY <1>8, <1>9, <1>10 DEF Story, Ordered

\* The owner hears of every step, until it takes the callback away.
LEMMA StoryGoesOn ==
  ASSUME Story, heard, heard', [Next]_vars
  PROVE  Story'
<1>1. CASE UNCHANGED vars
  <2>1. /\ Quiet /\ run' = run /\ calls' = calls /\ timers' = timers
    BY <1>1 DEF vars, Quiet, fixed, owner, input, pool, session
  <2> QED BY <2>1, QuietStep DEF Story, Typed, AppWaits, Waits, Early, Under
<1>2. CASE Below
  <2>1. "below" \in Threads
    BY DEF Threads
  <2> QED BY <1>2, <2>1, OwnerKeeps, StartKeeps, ConnectingKeeps, PushKeeps, LeaveKeeps, ThreadKeeps
          DEF Below
<1>3. CASE App
  <2>1. "app" \in Threads
    BY DEF Threads
  <2> QED BY <1>3, <2>1, OwnerKeeps, TakeKeeps, ThreadKeeps DEF App
<1>4. CASE Arrive \/ Ends \/ Fire
  BY <1>4, ArriveKeeps, EndsKeeps, FireKeeps
<1>5. CASE Worker
  BY <1>5, BeginKeeps, NothingToReadKeeps, HandshakeKeeps, OtherStepsKeep, PopKeeps, RecordKeeps,
     ConnectedKeeps, EndKeeps, TellNullKeeps DEF Worker
<1> QED BY <1>1, <1>2, <1>3, <1>4, <1>5 DEF Next

\* Once the callback is taken away nothing is told, and it stays away.
LEMMA SilentSteps ==
  ASSUME [Next]_vars, ~heard \/ ~heard'
  PROVE  told' = told /\ UNCHANGED fixed /\ ~heard'
<1>1. CASE UNCHANGED vars
  BY <1>1 DEF vars, fixed, owner
<1>2. CASE Take
  BY <1>2 DEF Take
<1>3. CASE Store \/ Register \/ Schedule \/ Verify \/ Push \/ Leave \/ Close \/ Arrive \/ Ends \/ Fire
  BY <1>3 DEF Store, Register, Schedule, Verify, Push, Leave, Close, Arrive, Ends, Fire, owner
<1>4. CASE Thread("below") \/ Thread("app")
  BY <1>4 DEF Thread, Unregister, StopQueue, Check, Add, owner
<1>5. CASE Connecting \/ Connected \/ End \/ TellNull
  BY <1>5 DEF Connecting, Connected, End, TellNull, ChangeState, Tell, owner
<1>6. CASE Begin \/ Again \/ TimedOut \/ Stopped \/ Handshake \/ Return \/ PostHandshake \/ Shut
  BY <1>6 DEF Begin, Again, TimedOut, Stopped, Handshake, Return, PostHandshake, Shut, owner
<1>7. CASE Pop
  BY <1>7 DEF Pop, Tell, owner
<1>8. CASE Record
  BY <1>8 DEF Record, Tell, owner
<1> QED BY <1>1, <1>2, <1>3, <1>4, <1>5, <1>6, <1>7, <1>8 DEF Next, Below, App, Worker

\* The property, of any reports.
InOrder(t, lives, streamed) ==
    LET said(what) == {i \in DOMAIN t : t[i].what = what}
        before(a, b) == \A i \in said(a), j \in said(b) : i < j
        states == {t[i].what : i \in DOMAIN t} \ {"data", "media", "null"}
    IN  /\ \E life \in lives : \E n \in 0 .. Len(life) :
              /\ states = {life[k] : k \in 1 .. n}
              /\ \A k, l \in 1 .. n : k < l => before(life[k], life[l])
        /\ \A what \in {"data", "media"} : before("Connected", what) /\ before(what, "Disconnected")
        /\ before("Disconnected", "null") /\ before("Connected", "null")
        /\ \A i, j \in DOMAIN t :
              /\ t[i].what = t[j].what /\ t[i].what \notin {"data", "media"} => i = j
              /\ t[i].what = "data" /\ t[j].what = "data" /\ streamed /\ i < j
                    => t[i].record < t[j].record

LEMMA ReportsAre == ReportsAreInOrder <=> InOrder(told, Lives, kind = "tls")
BY DEF ReportsAreInOrder, InOrder

LEMMA SameReports ==
  ASSUME ReportsAreInOrder, told' = told, UNCHANGED fixed
  PROVE  ReportsAreInOrder'
<1>1. Lives' = Lives /\ kind' = kind
  BY SameBackEnd DEF fixed
<1>2. (ReportsAreInOrder <=> InOrder(told, Lives, kind = "tls"))'
  BY ReportsAre, PTL
<1>3. InOrder(told, Lives, kind = "tls")
  BY ReportsAre
<1> QED BY <1>1, <1>2, <1>3

LEMMA StoryInOrder == Story => ReportsAreInOrder
BY StoryIsTold DEF Story

\* The story of the reports, in every state of every behaviour.
THEOREM StoryInvariance == Spec => []IInv
<1>1. BoundsAssumption
  BY BoundsAssumption
<1>2. Init => IInv
  BY <1>1, InitIsStory, StoryInOrder DEF IInv
<1>3. IInv /\ [Next]_vars => IInv'
  <2> SUFFICES ASSUME IInv, [Next]_vars
               PROVE  IInv'
    OBVIOUS
  <2>1. CASE heard /\ heard'
    <3>1. Story'
      BY <2>1, StoryGoesOn DEF IInv
    <3>2. (Story => ReportsAreInOrder)'
      BY StoryInOrder, PTL
    <3> QED BY <3>1, <3>2 DEF IInv
  <2>2. CASE ~heard \/ ~heard'
    BY <2>2, SilentSteps, SameReports DEF IInv
  <2> QED BY <2>1, <2>2
<1> QED BY <1>2, <1>3, PTL DEF Spec

\* What a transport tells upwards is the life of one connection: each state once and in order,
\* data and media only between Connected and Disconnected, a stream's data in the order it was
\* sent, and the null message once, at the end (changeState and recv in doRecv, resetCallbacks).
THEOREM ReportsOrdered == Spec => []ReportsAreInOrder
<1>1. IInv => ReportsAreInOrder
  BY DEF IInv
<1> QED BY <1>1, StoryInvariance, PTL
=============================================================================
