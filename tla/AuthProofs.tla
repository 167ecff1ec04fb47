------------------------------ MODULE AuthProofs ------------------------------
(***************************************************************************)
(* Invariance proofs for Auth, for every number of browsers, calls, faults *)
(* and seconds, and every lifetime of the tokens.                          *)
(***************************************************************************)
EXTENDS Auth, FiniteSetTheorems, TLAPS

-----------------------------------------------------------------------------
(* The inductive invariant.                                                *)

Pcs == Refreshing \cup {"new", "check", "refused", "verify", "issue", "revoke",
                        "deny", "sweep", "cut", "clear", "error", "done", "failed"}

\* The pc of a call tells what it carries.
Carries(k) ==
  /\ k.pc = "new" => k.cookie = 0
  /\ k.pc \in {"sign", "deliver"} => k.got # 0
  /\ k.got # 0 => k.again \/ k.pc \in {"sign", "deliver", "done", "failed"}
  /\ k.again => k.pc = "check" /\ k.op = "api" /\ k.got # 0 /\ k.access = k.got
  /\ k.pc \in {"lookup", "reuse", "rotate"} => k.cookie # 0
  /\ k.pc \in {"verify", "issue", "sweep", "cut"} => k.cookie = 0
  /\ k.pc = "check" /\ k.op # "logout" /\ ~k.again => k.cookie = 0
CallInv == \A c \in Calls : Carries(call[c])

\* Tokens are created in the order of their numbers, one for each browser and one
\* for each call that got one; nobody has a token that does not exist.
Answered == {c \in Calls : call[c].got # 0}
Created == Cardinality(Browsers) + Cardinality(Answered)
NumberInv ==
  /\ \A t \in Tokens : token[t] # "none" <=> t <= Created
  /\ \A b \in Browsers : jar[b] # 0 => token[jar[b]] # "none"
  /\ \A c \in Calls : /\ call[c].cookie # 0 => token[call[c].cookie] # "none"
                      /\ call[c].got # 0 => token[call[c].got] # "none"

\* A token is in one place: a jar or the answer on its way there.  A jar's token is
\* presented by calls of its own browser, or of a page that is gone, and by two of
\* them only once it is astray.
HomeInv ==
  /\ \A a, b \in Browsers : jar[a] = jar[b] /\ jar[a] # 0 => a = b
  /\ \A c, d \in Calls : call[c].got = call[d].got /\ call[c].got # 0 => c = d
  /\ \A c \in Calls : call[c].pc \in {"sign", "deliver"} =>
       /\ \A b \in Browsers : jar[b] # call[c].got
       /\ \A d \in Calls : call[d].cookie # call[c].got
  /\ \A c \in Calls : call[c].pc \in Refreshing /\ call[c].cookie # 0 =>
       /\ \A b \in Browsers : jar[b] = call[c].cookie => call[c].from \in {b, NoBrowser}
       /\ \A d \in Presenting(call[c].cookie) : d = c \/ call[c].cookie \in astray

\* What was rotated, logged out or ended is revoked, and a new token stays live
\* until it is delivered, unless it is ended.
RevokedInv ==
  /\ \A t \in ended : token[t] = "revoked"
  /\ \A c \in Calls :
       /\ call[c].cookie # 0 /\ (call[c].got # 0 \/ call[c].pc \in {"deny", "clear", "error"})
            => token[call[c].cookie] = "revoked"
       /\ call[c].pc \in {"sign", "deliver"}
            => token[call[c].got] = "live" \/ call[c].got \in ended

\* A refresh past its lookup lost its token only to a race.
RaceInv ==
  \A c \in Calls :
    (At(c, "rotate") \/ call[c].got # 0) /\ call[c].cookie \in ended => c \in racing

\* A token that its own rotation revoked, and that is not astray, is not presented
\* again: the call that rotated it is the only one, and takes it out of the jar.
ReuseInv ==
  /\ \A t \in Tokens : token[t] = "revoked" /\ t \notin astray \cup ended =>
       /\ \A c \in Presenting(t) : call[c].pc \in {"sign", "deliver"}
       /\ \A b \in Browsers : jar[b] = t => Presenting(t) # {}
  /\ \A c \in Calls : At(c, "reuse") => call[c].cookie \in astray \cup ended

TokenInv ==
  NumberInv /\ HomeInv /\ RevokedInv /\ LiveTokensAreHeld /\ RaceInv /\ ReuseInv

IInv == TypeOK /\ CallInv /\ TokenInv /\ cutoff <= now /\ TurnedAwayForAReason

-----------------------------------------------------------------------------
(* Constants, calls and tokens.                                            *)

LEMMA Bounds ==
  /\ Cardinality(Browsers) \in Nat /\ Cardinality(Calls) \in Nat
  /\ Tokens \subseteq Nat \ {0} /\ Browsers \subseteq Tokens /\ NoBrowser \notin Browsers
  /\ MaxNow \in Nat \ {0} /\ MaxFaults \in Nat
  /\ AccessTTL \in Nat \ {0} /\ RefreshTTL \in Nat \ {0}
<1>1. Cardinality(Browsers) \in Nat /\ Cardinality(Calls) \in Nat
  BY AuthAssumption, FS_CardinalityType
<1>2. Tokens \subseteq Nat \ {0} /\ Browsers \subseteq Tokens
  <2>1. Browsers = 1..Cardinality(Browsers)
    BY AuthAssumption
  <2> QED
    BY <1>1, <2>1 DEF Tokens
<1> QED
  BY <1>1, <1>2, AuthAssumption

LEMMA FaultCounts ==
  ASSUME TypeOK, Fault
  PROVE  faults' \in 0..MaxFaults
BY Bounds DEF TypeOK, Fault

LEMMA CallFields ==
  ASSUME TypeOK, NEW c \in Calls
  PROVE  /\ call[c] \in Call
         /\ call[c].cookie \in Tokens \cup {0} /\ call[c].access \in Tokens \cup {0}
         /\ call[c].got \in Tokens \cup {0} /\ call[c].from \in Browsers \cup {NoBrowser}
         /\ call[c].stamp \in 0..MaxNow /\ call[c].again \in BOOLEAN /\ call[c].pc \in Pcs
BY DEF TypeOK, Call, Pcs

LEMMA NotMadeIsACall == NotMade \in Call
BY Bounds DEF NotMade, Call

\* The record of a request.
Made(op, b, a, t, p) ==
  [NotMade EXCEPT !.op = op, !.from = b, !.access = a, !.cookie = t, !.pc = p]

LEMMA MadeIsACall ==
  ASSUME NEW op \in Ops, NEW b \in Browsers, NEW a \in Tokens \cup {0},
         NEW t \in Tokens \cup {0}, NEW p \in Pcs
  PROVE  /\ Made(op, b, a, t, p) \in Call
         /\ Made(op, b, a, t, p).pc = p /\ Made(op, b, a, t, p).cookie = t
         /\ Made(op, b, a, t, p).got = 0 /\ Made(op, b, a, t, p).again = FALSE
         /\ Made(op, b, a, t, p).op = op
<1>1. NotMade \in Call
  BY NotMadeIsACall
<1>2. Made(op, b, a, t, p) \in Call
  <2> DEFINE half == [NotMade EXCEPT !.op = op, !.from = b]
  <2>1. half \in Call
    BY <1>1 DEF Call
  <2>2. Made(op, b, a, t, p) = [half EXCEPT !.access = a, !.cookie = t, !.pc = p]
    BY DEF Made
  <2> HIDE DEF half
  <2> QED
    BY <2>1, <2>2 DEF Call, Pcs
<1>3. /\ Made(op, b, a, t, p).pc = p /\ Made(op, b, a, t, p).cookie = t
      /\ Made(op, b, a, t, p).got = 0 /\ Made(op, b, a, t, p).again = FALSE
      /\ Made(op, b, a, t, p).op = op
  BY DEF Made, NotMade
<1> QED
  BY <1>2, <1>3

\* What On keeps of a call.
LEMMA OnGives ==
  ASSUME NEW k \in Call, NEW p \in Pcs
  PROVE  /\ On(k, p) \in Call
         /\ On(k, p).pc = p /\ On(k, p).cookie = k.cookie /\ On(k, p).got = k.got
         /\ p \notin {"done", "failed"} =>
              /\ On(k, p).op = k.op /\ On(k, p).from = k.from
              /\ On(k, p).access = k.access /\ On(k, p).again = k.again
              /\ On(k, p).stamp = k.stamp
         /\ p \in {"done", "failed"} => On(k, p).again = FALSE
<1>1. CASE p \in {"done", "failed"}
  <2>1. On(k, p) = [op |-> "none", from |-> NoBrowser, cookie |-> k.cookie, access |-> 0,
                    got |-> k.got, stamp |-> 0, again |-> FALSE, pc |-> p]
    BY <1>1 DEF On, NotMade
  <2>2. 0 \in 0..MaxNow /\ k.cookie \in Tokens \cup {0} /\ k.got \in Tokens \cup {0}
    BY Bounds DEF Call
  <2>3. On(k, p) \in Call
    BY <2>1, <2>2 DEF Call, Pcs
  <2>4. /\ On(k, p).pc = p /\ On(k, p).cookie = k.cookie /\ On(k, p).got = k.got
        /\ On(k, p).again = FALSE
    BY <2>1
  <2> QED
    BY <1>1, <2>3, <2>4
<1>2. CASE p \notin {"done", "failed"}
  BY <1>2 DEF On, Call, Pcs
<1> QED
  BY <1>1, <1>2

\* Call c goes on at p with the tokens it has.
Moved(c, p) ==
  /\ call' \in [Calls -> Call]
  /\ \A d \in Calls : d # c => call'[d] = call[d]
  /\ call'[c].pc = p
  /\ call'[c].cookie = call[c].cookie /\ call'[c].got = call[c].got
  /\ p \notin {"done", "failed"} =>
       /\ call'[c].op = call[c].op /\ call'[c].from = call[c].from
       /\ call'[c].again = call[c].again
       /\ call[c].again => call'[c].access = call[c].access
  /\ p \in {"done", "failed"} => call'[c].again = FALSE

LEMMA OnMoves ==
  ASSUME TypeOK, NEW c \in Calls, NEW k \in Call, NEW p \in Pcs,
         call' = [call EXCEPT ![c] = On(k, p)],
         k.cookie = call[c].cookie, k.got = call[c].got,
         k.op = call[c].op, k.from = call[c].from, k.again = call[c].again,
         p \notin {"done", "failed"} /\ call[c].again => k.access = call[c].access
  PROVE  Moved(c, p)
<1>1. call'[c] = On(k, p) /\ On(k, p) \in Call
  BY OnGives DEF TypeOK
<1>2. call' \in [Calls -> Call] /\ \A d \in Calls : d # c => call'[d] = call[d]
  BY <1>1 DEF TypeOK
<1>3. CASE p \in {"done", "failed"}
  <2>1. /\ On(k, p).pc = p /\ On(k, p).again = FALSE
        /\ On(k, p).cookie = k.cookie /\ On(k, p).got = k.got
    BY <1>3, OnGives
  <2> QED
    BY <1>1, <1>2, <1>3, <2>1 DEF Moved
<1>4. CASE p \notin {"done", "failed"}
  <2>1. /\ On(k, p).op = k.op /\ On(k, p).from = k.from /\ On(k, p).again = k.again
        /\ On(k, p).access = k.access /\ On(k, p).pc = p
        /\ On(k, p).cookie = k.cookie /\ On(k, p).got = k.got
    BY <1>4, OnGives
  <2> QED
    BY <1>2, <1>4, <2>1 DEF Moved
<1> QED
  BY <1>3, <1>4

LEMMA GotoMoves ==
  ASSUME TypeOK, NEW c \in Calls, NEW p \in Pcs, Goto(c, p)
  PROVE  Moved(c, p)
BY CallFields, OnMoves DEF Goto

LEMMA StampedMoves ==
  ASSUME TypeOK, NEW c \in Calls, NEW p \in Pcs,
         call' = [call EXCEPT ![c] = On([@ EXCEPT !.stamp = now], p)]
  PROVE  Moved(c, p)
<1> DEFINE k == [call[c] EXCEPT !.stamp = now]
<1>1. now \in 0..MaxNow
  BY DEF TypeOK
<1>2. /\ k \in Call /\ k.cookie = call[c].cookie /\ k.got = call[c].got /\ k.op = call[c].op
      /\ k.from = call[c].from /\ k.again = call[c].again /\ k.access = call[c].access
  BY <1>1, CallFields DEF Call
<1>3. call' = [call EXCEPT ![c] = On(k, p)]
  OBVIOUS
<1> HIDE DEF k
<1> QED
  BY <1>2, <1>3, OnMoves

LEMMA SentGives ==
  ASSUME TypeOK, NEW k \in Call, NEW b \in Browsers
  PROVE  /\ Sent(k, b) \in Call
         /\ Sent(k, b).cookie = jar[b] /\ Sent(k, b).got = k.got
         /\ jar[b] = 0 => Sent(k, b).pc = "failed" /\ Sent(k, b).again = FALSE
         /\ jar[b] # 0 => /\ Sent(k, b).pc = "lookup" /\ Sent(k, b).from = k.from
                          /\ Sent(k, b).again = k.again /\ Sent(k, b).op = k.op
<1> DEFINE j == [k EXCEPT !.cookie = jar[b]]
<1>1. /\ j \in Call /\ j.cookie = jar[b] /\ j.got = k.got /\ j.from = k.from
      /\ j.again = k.again /\ j.op = k.op
  BY DEF TypeOK, Call
<1>2. Sent(k, b) = On(j, IF jar[b] = 0 THEN "failed" ELSE "lookup")
  BY DEF Sent
<1> HIDE DEF j
<1>3. {"failed", "lookup"} \subseteq Pcs
  BY DEF Pcs, Refreshing
<1>4. CASE jar[b] = 0
  <2>1. Sent(k, b) = On(j, "failed")
    BY <1>2, <1>4
  <2> QED
    <3>1. /\ On(j, "failed") \in Call /\ On(j, "failed").pc = "failed"
          /\ On(j, "failed").cookie = j.cookie /\ On(j, "failed").got = j.got
          /\ On(j, "failed").again = FALSE
      BY <1>1, <1>3, OnGives
    <3> QED
      BY <1>1, <1>4, <2>1, <3>1
<1>5. CASE jar[b] # 0
  <2>1. Sent(k, b) = On(j, "lookup")
    BY <1>2, <1>5
  <2> QED
    <3>1. "lookup" \in Pcs /\ "lookup" \notin {"done", "failed"}
      BY <1>3
    <3>2. /\ On(j, "lookup") \in Call /\ On(j, "lookup").pc = "lookup"
          /\ On(j, "lookup").cookie = j.cookie /\ On(j, "lookup").got = j.got
          /\ On(j, "lookup").from = j.from /\ On(j, "lookup").again = j.again
          /\ On(j, "lookup").op = j.op
      BY <1>1, <3>1, OnGives
    <3> QED
      BY <1>1, <1>5, <2>1, <3>2
<1> QED
  BY <1>4, <1>5

\* The next token is a new one, as long as some call has none yet.
LEMMA NextIsNew ==
  ASSUME IInv, NEW c \in Calls, call[c].got = 0
  PROVE  /\ NextToken \in Tokens /\ token[NextToken] = "none" /\ NextToken = Created + 1
         /\ Created \in Nat /\ Created < Cardinality(Browsers) + Cardinality(Calls)
<1> USE DEF IInv, TokenInv
<1>1. Cardinality(Answered) \in Nat /\ Cardinality(Answered) < Cardinality(Calls)
  <2>1. IsFiniteSet(Calls)
    BY AuthAssumption
  <2>2. Answered \subseteq Calls /\ c \notin Answered
    BY DEF Answered
  <2>3. IsFiniteSet(Answered) /\ Cardinality(Answered) <= Cardinality(Calls)
    BY <2>1, <2>2, FS_Subset
  <2>4. Cardinality(Answered) # Cardinality(Calls)
    BY <2>1, <2>2, FS_Subset
  <2> QED
    BY <2>3, <2>4, Bounds, FS_CardinalityType
<1>2. Created \in Nat /\ Created < Cardinality(Browsers) + Cardinality(Calls)
  BY <1>1, Bounds DEF Created
<1>3. {t \in Tokens : token[t] # "none"} = 1..Created
  BY <1>2, Bounds DEF NumberInv, Tokens
<1>4. Cardinality(1..Created) = Created
  BY <1>2, FS_Interval
<1>5. NextToken = Created + 1
  <2>1. Cardinality({t \in Tokens : token[t] # "none"}) = Created
    BY ONLY <1>3, <1>4
  <2> QED
    BY <1>2, <2>1 DEF NextToken
<1>6. NextToken \in Tokens /\ ~(NextToken <= Created)
  BY <1>2, <1>5, Bounds DEF Tokens
<1> QED
  BY <1>2, <1>5, <1>6 DEF NumberInv

-----------------------------------------------------------------------------
(* What the tokens' invariants ask of a step.                              *)

\* Call c moves on with the tokens it has; a logout takes those of its jar along.
KeepsItsTokens(c) ==
  /\ call'[c].got = call[c].got
  /\ \/ call'[c].cookie = call[c].cookie
     \/ /\ call'[c].pc = "check" /\ call[c].got = 0
        /\ call'[c].cookie \in {0} \cup {jar[b] : b \in Browsers}
  /\ call'[c].pc \in Refreshing =>
       call[c].pc \in Refreshing /\ call'[c].from = call[c].from
  /\ call'[c].pc \in {"sign", "deliver"} => call[c].pc \in {"sign", "deliver"}
  /\ call[c].pc \in {"sign", "deliver"} =>
       \/ call'[c].pc \in {"sign", "deliver"}
       \/ {call[c].cookie, call[c].got} \ {0} \subseteq astray'
  /\ call'[c].pc \in {"deny", "clear", "error"} =>
       \/ call[c].pc \in {"deny", "clear", "error"} \/ call[c].cookie = 0
       \/ token'[call[c].cookie] = "revoked"
  /\ call'[c].pc = "rotate" => call[c].pc = "rotate" \/ call[c].cookie \notin ended'
  /\ call'[c].pc = "reuse" => call[c].pc = "reuse" \/ call[c].cookie \in astray \cup ended

\* Jars may be emptied of tokens that are revoked or go astray.
JarsEmpty ==
  \A b \in Browsers :
    \/ jar'[b] = jar[b]
    \/ jar'[b] = 0 /\ (jar[b] = 0 \/ jar[b] \in astray' \/ token[jar[b]] = "revoked")

\* A step that ends the live tokens S and creates none.
LEMMA TokensKept ==
  ASSUME IInv, NEW c \in Calls, NEW S \in SUBSET Live,
         \A d \in Calls : d # c => call'[d] = call[d],
         KeepsItsTokens(c), JarsEmpty,
         \A t \in Tokens : token'[t] = IF t \in S THEN "revoked" ELSE token[t],
         ended' = ended \cup S, astray \subseteq astray', racing \subseteq racing',
         \A d \in Calls : At(d, "rotate") /\ call[d].cookie \in S => d \in racing'
  PROVE  TokenInv'
<1> USE DEF IInv, TokenInv
<1>1. /\ 0 \notin Tokens
      /\ \A t \in Tokens : token[t] \in {"none", "live", "revoked"}
      /\ \A b \in Browsers : jar[b] \in Tokens \cup {0}
      /\ ended \subseteq Tokens
  BY Bounds DEF TypeOK
<1>2. \A d \in Calls : /\ call[d].cookie \in Tokens \cup {0} /\ call[d].got \in Tokens \cup {0}
                       /\ call'[d].got = call[d].got
  BY CallFields DEF KeepsItsTokens
<1>3. \A t \in Tokens : /\ token'[t] = "none" <=> token[t] = "none"
                        /\ token[t] = "revoked" => token'[t] = "revoked"
                        /\ token'[t] = "live" => token[t] = "live"
  BY DEF Live
<1>4. \A d \in Calls : \/ call'[d].cookie = call[d].cookie
                       \/ /\ d = c /\ call'[d].pc = "check" /\ call[d].got = 0
                          /\ \/ call'[d].cookie = 0
                             \/ \E b \in Browsers : call'[d].cookie = jar[b]
  BY DEF KeepsItsTokens
<1>5. \A t \in Tokens : \A d \in Presenting(t)' :
        /\ d \in Presenting(t) /\ call'[d].from = call[d].from
        /\ call'[d].cookie = call[d].cookie
  BY DEF Presenting, KeepsItsTokens, Refreshing
<1>6. NumberInv'
  <2>1. Answered' = Answered
    BY <1>2 DEF Answered
  <2>2. Created' = Created
    BY <2>1 DEF Created
  <2>3. \A t \in Tokens : token'[t] # "none" <=> t <= Created'
    BY <1>3, <2>2 DEF NumberInv
  <2>4. \A b \in Browsers : jar'[b] # 0 => token'[jar'[b]] # "none"
    BY <1>1 DEF NumberInv, JarsEmpty
  <2>5. ASSUME NEW d \in Calls
        PROVE  /\ call'[d].cookie # 0 => token'[call'[d].cookie] # "none"
               /\ call'[d].got # 0 => token'[call'[d].got] # "none"
    BY <1>1, <1>2, <1>4 DEF NumberInv
  <2> QED
    BY <2>3, <2>4, <2>5 DEF NumberInv
<1>7. HomeInv'
  <2>1. ASSUME NEW a \in Browsers, NEW b \in Browsers, jar'[a] = jar'[b], jar'[a] # 0
        PROVE  a = b
    BY <2>1 DEF HomeInv, JarsEmpty
  <2>2. ASSUME NEW d \in Calls, NEW e \in Calls,
               call'[d].got = call'[e].got, call'[d].got # 0
        PROVE  d = e
    BY <1>2, <2>2 DEF HomeInv
  <2>3. ASSUME NEW d \in Calls, call'[d].pc \in {"sign", "deliver"}
        PROVE  /\ \A b \in Browsers : jar'[b] # call'[d].got
               /\ \A e \in Calls : call'[e].cookie # call'[d].got
    <3>1. call[d].pc \in {"sign", "deliver"} /\ call[d].got # 0 /\ call'[d].got = call[d].got
      BY <2>3 DEF KeepsItsTokens, CallInv, Carries
    <3>2. /\ \A b \in Browsers : jar[b] # call[d].got
          /\ \A e \in Calls : call[e].cookie # call[d].got
      BY <3>1 DEF HomeInv
    <3> QED
      BY <1>4, <3>1, <3>2 DEF JarsEmpty
  <2>4. ASSUME NEW d \in Calls, call'[d].pc \in Refreshing, call'[d].cookie # 0
        PROVE  /\ \A b \in Browsers :
                    jar'[b] = call'[d].cookie => call'[d].from \in {b, NoBrowser}
               /\ \A e \in Presenting(call[d].cookie)' :
                    e = d \/ call'[d].cookie \in astray'
    <3>1. /\ call[d].pc \in Refreshing /\ call'[d].from = call[d].from
          /\ call'[d].cookie = call[d].cookie
      BY <2>4 DEF KeepsItsTokens, Refreshing
    <3>2. call[d].cookie \in Tokens
      BY <1>2, <2>4, <3>1
    <3>3. \A b \in Browsers : jar'[b] = call[d].cookie => jar[b] = call[d].cookie
      BY <2>4, <3>1 DEF JarsEmpty
    <3>4. \A b \in Browsers : jar[b] = call[d].cookie => call[d].from \in {b, NoBrowser}
      BY <2>4, <3>1 DEF HomeInv
    <3>5. \A e \in Presenting(call[d].cookie) : e = d \/ call[d].cookie \in astray
      BY <2>4, <3>1 DEF HomeInv
    <3>6. \A e \in Presenting(call[d].cookie)' : e \in Presenting(call[d].cookie)
      BY <1>5, <3>1, <3>2
    <3> QED
      BY <3>1, <3>3, <3>4, <3>5, <3>6
  <2> QED
    BY ONLY <2>1, <2>2, <2>3, <2>4 DEF HomeInv
<1>8. RevokedInv'
  <2>1. \A t \in ended' : token'[t] = "revoked"
    BY <1>1 DEF RevokedInv, Live
  <2>2. ASSUME NEW d \in Calls, call'[d].cookie # 0,
               call'[d].got # 0 \/ call'[d].pc \in {"deny", "clear", "error"}
        PROVE  token'[call'[d].cookie] = "revoked"
    <3>1. call'[d].cookie = call[d].cookie /\ call[d].cookie \in Tokens
      BY <1>2, <1>4, <2>2
    <3>2. CASE call[d].got # 0 \/ call[d].pc \in {"deny", "clear", "error"}
      BY <2>2, <3>1, <3>2 DEF RevokedInv
    <3>3. CASE ~(call[d].got # 0 \/ call[d].pc \in {"deny", "clear", "error"})
      BY <2>2, <3>3 DEF KeepsItsTokens
    <3> QED
      BY <3>2, <3>3
  <2>3. ASSUME NEW d \in Calls, call'[d].pc \in {"sign", "deliver"}
        PROVE  token'[call'[d].got] = "live" \/ call'[d].got \in ended'
    <3>1. call[d].pc \in {"sign", "deliver"} /\ call[d].got \in Tokens
      BY <1>2, <2>3 DEF KeepsItsTokens, CallInv, Carries
    <3> QED
      BY <1>2, <3>1 DEF RevokedInv
  <2> QED
    BY <2>1, <2>2, <2>3 DEF RevokedInv
<1>9. LiveTokensAreHeld'
  <2> SUFFICES ASSUME NEW t \in Tokens, token'[t] = "live", t \notin astray'
               PROVE  \/ \E b \in Browsers : jar'[b] = t
                      \/ \E d \in Calls : call'[d].got = t /\ call'[d].pc \in {"sign", "deliver"}
    BY DEF LiveTokensAreHeld, Live
  <2>1. token[t] = "live" /\ t # 0
    BY <1>1
  <2>2. CASE \E b \in Browsers : jar[b] = t
    BY <2>2 DEF JarsEmpty
  <2>3. CASE \E d \in Calls : call[d].got = t /\ call[d].pc \in {"sign", "deliver"}
    BY <2>1, <2>3 DEF KeepsItsTokens
  <2> QED
    BY <2>2, <2>3 DEF LiveTokensAreHeld, Live
<1>10. RaceInv'
  <2> SUFFICES ASSUME NEW d \in Calls, call'[d].pc = "rotate" \/ call'[d].got # 0,
                      call'[d].cookie \in ended'
               PROVE  d \in racing'
    BY DEF RaceInv, At
  <2>1. call'[d].cookie = call[d].cookie /\ call[d].cookie \in Tokens
    BY <1>1, <1>2, <1>4 DEF Live
  <2>2. call[d].pc = "rotate" \/ call[d].got # 0
    BY DEF KeepsItsTokens
  <2>3. CASE call[d].cookie \in ended
    BY <2>2, <2>3 DEF RaceInv, At
  <2>4. CASE call[d].cookie \in S
    <3>1. call[d].got = 0
      <4>1. token[call[d].cookie] = "live" /\ call[d].cookie # 0
        BY <1>1, <2>4 DEF Live
      <4> QED
        BY <4>1 DEF RevokedInv
    <3> QED
      BY <2>2, <2>4, <3>1 DEF At
  <2> QED
    BY <2>1, <2>3, <2>4
<1>11. ReuseInv'
  <2>1. ASSUME NEW t \in Tokens, token'[t] = "revoked", t \notin astray' \cup ended'
        PROVE  /\ \A d \in Presenting(t)' : call'[d].pc \in {"sign", "deliver"}
               /\ \A b \in Browsers : jar'[b] = t => Presenting(t)' # {}
    <3>1. token[t] = "revoked" /\ t \notin astray \cup ended
      BY <2>1
    <3>2. \A d \in Presenting(t) : /\ call[d].pc \in {"sign", "deliver"}
                                   /\ call'[d].pc \in {"sign", "deliver"}
                                   /\ d \in Presenting(t)'
      <4> SUFFICES ASSUME NEW d \in Presenting(t)
                   PROVE  /\ call[d].pc \in {"sign", "deliver"}
                          /\ call'[d].pc \in {"sign", "deliver"}
                          /\ d \in Presenting(t)'
        OBVIOUS
      <4>1. call[d].pc \in {"sign", "deliver"} /\ d \in Calls /\ call[d].cookie = t
        BY <3>1 DEF ReuseInv, Presenting
      <4>2. call'[d].pc \in {"sign", "deliver"}
        BY <1>1, <2>1, <4>1 DEF KeepsItsTokens
      <4>3. call'[d].cookie = t
        BY <1>4, <4>1, <4>2
      <4> QED
        BY <4>1, <4>2, <4>3 DEF Presenting, Refreshing
    <3>3. \A b \in Browsers : jar'[b] = t => jar[b] = t
      BY <1>1 DEF JarsEmpty
    <3> QED
      BY <1>5, <3>1, <3>2, <3>3 DEF ReuseInv
  <2>2. ASSUME NEW d \in Calls, call'[d].pc = "reuse"
        PROVE  call'[d].cookie \in astray' \cup ended'
    BY <2>2 DEF KeepsItsTokens, ReuseInv, At
  <2> QED
    BY <2>1, <2>2 DEF ReuseInv, At
<1> QED
  BY <1>6, <1>7, <1>8, <1>9, <1>10, <1>11

\* A step that changes neither the tokens nor where they are.
LEMMA TokensIdle ==
  ASSUME IInv, NEW c \in Calls, \A d \in Calls : d # c => call'[d] = call[d],
         KeepsItsTokens(c), UNCHANGED <<token, jar, history>>
  PROVE  TokenInv'
<1>1. {} \in SUBSET Live
  OBVIOUS
<1>2. ended' = ended \cup {} /\ astray \subseteq astray' /\ racing \subseteq racing' /\ JarsEmpty
  BY DEF history, JarsEmpty
<1> QED
  BY <1>1, <1>2, TokensKept

\* A step that creates a token for call c, in the place of its cookie if it has one.
LEMMA TokenCreated ==
  ASSUME IInv, NEW c \in Calls, call[c].pc \in {"rotate", "issue"}, call[c].got = 0,
         NEW p \in {"sign", "deliver"},
         \A d \in Calls : d # c => call'[d] = call[d],
         call'[c].got = NextToken, call'[c].cookie = call[c].cookie,
         call'[c].from = call[c].from, call'[c].pc = p,
         \A t \in Tokens : token'[t] = IF t = NextToken THEN "live"
                                       ELSE IF t = call[c].cookie THEN "revoked"
                                       ELSE token[t],
         UNCHANGED <<jar, history>>
  PROVE  TokenInv'
<1> USE DEF IInv, TokenInv
<1> DEFINE n == NextToken
<1>1. /\ n \in Tokens /\ token[n] = "none" /\ n = Created + 1 /\ Created \in Nat
      /\ 0 \notin Tokens
      /\ \A b \in Browsers : jar[b] \in Tokens \cup {0} /\ jar[b] # n
      /\ ended \subseteq Tokens /\ n \notin ended
      /\ jar' = jar /\ astray' = astray /\ ended' = ended /\ racing' = racing
  <2>1. n \in Tokens /\ token[n] = "none" /\ n = Created + 1 /\ Created \in Nat
    BY NextIsNew
  <2>2. 0 \notin Tokens
    BY Bounds
  <2> QED
    BY <2>1, <2>2 DEF TypeOK, NumberInv, RevokedInv, history
<1> HIDE DEF n
<1>2. \A d \in Calls : /\ call[d].cookie \in (Tokens \cup {0}) \ {n}
                       /\ call[d].got \in (Tokens \cup {0}) \ {n}
                       /\ call'[d].cookie = call[d].cookie
                       /\ call'[d].got = IF d = c THEN n ELSE call[d].got
  BY <1>1, CallFields DEF NumberInv, n
<1>3. /\ token'[n] = "live"
      /\ \A t \in Tokens : t # n =>
           token'[t] = IF t = call[c].cookie THEN "revoked" ELSE token[t]
  BY <1>1 DEF n
<1>4. call[c].pc = "issue" => call[c].cookie = 0
  BY DEF CallInv, Carries
<1>5. \A t \in Tokens : Presenting(t)' = Presenting(t)
  BY <1>1, <1>4 DEF Presenting, Refreshing
<1>6. NumberInv'
  <2>1. Answered' = Answered \cup {c} /\ c \notin Answered
    BY <1>2 DEF Answered
  <2>2. IsFiniteSet(Answered)
    BY AuthAssumption, FS_Subset DEF Answered
  <2>3. Cardinality(Answered') = Cardinality(Answered) + 1
    BY <2>1, <2>2, FS_AddElement
  <2>4. Cardinality(Answered) \in Nat
    BY <2>2, FS_CardinalityType
  <2>5. Created' = n
    BY <1>1, <2>3, <2>4, Bounds DEF Created
  <2>6. ASSUME NEW t \in Tokens
        PROVE  token'[t] # "none" <=> t <= n
    <3>1. token[t] # "none" <=> t <= Created
      BY DEF NumberInv
    <3>2. t \in Nat /\ (t <= n <=> t = n \/ t <= Created)
      BY <1>1, Bounds
    <3>3. t = call[c].cookie => token[t] # "none"
      BY <1>1 DEF NumberInv
    <3> QED
      BY <1>3, <3>1, <3>2, <3>3
  <2>7. \A t \in Tokens : token[t] # "none" => token'[t] # "none"
    OBVIOUS
  <2>8. \A b \in Browsers : jar'[b] # 0 => token'[jar'[b]] # "none"
    <3>1. jar' = jar
      BY <1>1
    <3>2. \A b \in Browsers : jar[b] # 0 => jar[b] \in Tokens /\ token[jar[b]] # "none"
      BY DEF NumberInv, TypeOK
    <3> QED
      BY ONLY <2>7, <3>1, <3>2
  <2>9. ASSUME NEW d \in Calls
        PROVE  /\ call'[d].cookie # 0 => token'[call'[d].cookie] # "none"
               /\ call'[d].got # 0 => token'[call'[d].got] # "none"
    BY <1>2, <1>3 DEF NumberInv
  <2> QED
    BY <2>5, <2>6, <2>8, <2>9 DEF NumberInv
<1>7. HomeInv'
  <2>1. ASSUME NEW a \in Browsers, NEW b \in Browsers, jar'[a] = jar'[b], jar'[a] # 0
        PROVE  a = b
    BY <2>1 DEF HomeInv
  <2>2. ASSUME NEW d \in Calls, NEW e \in Calls,
               call'[d].got = call'[e].got, call'[d].got # 0
        PROVE  d = e
    BY <1>2, <2>2 DEF HomeInv
  <2>3. ASSUME NEW d \in Calls, call'[d].pc \in {"sign", "deliver"}
        PROVE  /\ \A b \in Browsers : jar'[b] # call'[d].got
               /\ \A e \in Calls : call'[e].cookie # call'[d].got
    <3>1. CASE d = c
      BY <1>1, <1>2, <3>1
    <3>2. CASE d # c
      BY <2>3, <3>2 DEF HomeInv
    <3> QED
      BY <3>1, <3>2
  <2>4. ASSUME NEW d \in Calls, call'[d].pc \in Refreshing, call'[d].cookie # 0
        PROVE  /\ \A b \in Browsers :
                    jar'[b] = call'[d].cookie => call'[d].from \in {b, NoBrowser}
               /\ \A e \in Presenting(call[d].cookie)' :
                    e = d \/ call'[d].cookie \in astray'
    <3>1. /\ call[d].pc \in Refreshing /\ call'[d].from = call[d].from
          /\ call'[d].cookie = call[d].cookie /\ call[d].cookie \in Tokens
      BY <1>2, <1>4, <2>4 DEF Refreshing
    <3>2. \A b \in Browsers : jar[b] = call[d].cookie => call[d].from \in {b, NoBrowser}
      BY <2>4, <3>1 DEF HomeInv
    <3>3. \A e \in Presenting(call[d].cookie) : e = d \/ call[d].cookie \in astray
      BY <2>4, <3>1 DEF HomeInv
    <3>4. \A e \in Presenting(call[d].cookie)' : e \in Presenting(call[d].cookie)
      BY <1>5, <3>1
    <3> QED
      BY <1>1, <3>2, <3>3, <3>4
  <2> QED
    BY ONLY <2>1, <2>2, <2>3, <2>4 DEF HomeInv
<1>8. RevokedInv'
  <2>1. \A t \in ended' : token'[t] = "revoked"
    BY <1>1, <1>3 DEF RevokedInv
  <2>2. ASSUME NEW d \in Calls, call'[d].cookie # 0,
               call'[d].got # 0 \/ call'[d].pc \in {"deny", "clear", "error"}
        PROVE  token'[call'[d].cookie] = "revoked"
    <3>1. call'[d].cookie = call[d].cookie /\ call[d].cookie \in Tokens \ {n}
      BY <1>2, <2>2
    <3>2. CASE d = c
      BY <1>3, <3>1, <3>2
    <3>3. CASE d # c
      BY <1>3, <2>2, <3>1 DEF RevokedInv
    <3> QED
      BY <3>2, <3>3
  <2>3. ASSUME NEW d \in Calls, call'[d].pc \in {"sign", "deliver"}
        PROVE  token'[call'[d].got] = "live" \/ call'[d].got \in ended'
    <3>1. CASE d = c
      BY <1>2, <1>3, <3>1
    <3>2. CASE d # c
      <4>1. /\ call'[d].got = call[d].got /\ call[d].got \in Tokens \ {n}
            /\ call[d].got # call[c].cookie
            /\ token[call[d].got] = "live" \/ call[d].got \in ended
        BY <1>2, <2>3, <3>2 DEF RevokedInv, HomeInv, CallInv, Carries
      <4> QED
        BY ZenonT(20), <1>1, <4>1
    <3> QED
      BY <3>1, <3>2
  <2> QED
    BY <2>1, <2>2, <2>3 DEF RevokedInv
<1>9. LiveTokensAreHeld'
  <2> SUFFICES ASSUME NEW t \in Tokens, token'[t] = "live", t \notin astray'
               PROVE  \/ \E b \in Browsers : jar'[b] = t
                      \/ \E d \in Calls : call'[d].got = t /\ call'[d].pc \in {"sign", "deliver"}
    BY DEF LiveTokensAreHeld, Live
  <2>1. CASE t = n
    BY <1>2, <2>1
  <2>2. CASE t # n
    <3>1. token[t] = "live"
      BY <1>3, <2>2
    <3>2. \/ \E b \in Browsers : jar[b] = t
          \/ \E d \in Calls : call[d].got = t /\ call[d].pc \in {"sign", "deliver"}
      BY <1>1, <3>1 DEF LiveTokensAreHeld, Live
    <3> QED
      BY <3>2
  <2> QED
    BY <2>1, <2>2
<1>10. RaceInv'
  <2> SUFFICES ASSUME NEW d \in Calls, call'[d].pc = "rotate" \/ call'[d].got # 0,
                      call'[d].cookie \in ended'
               PROVE  d \in racing'
    BY DEF RaceInv, At
  <2>1. call[d].pc = "rotate" \/ call[d].got # 0
    BY <1>1, <1>4
  <2> QED
    BY <1>1, <2>1 DEF RaceInv, At
<1>11. ReuseInv'
  <2>1. ASSUME NEW t \in Tokens, token'[t] = "revoked", t \notin astray' \cup ended'
        PROVE  /\ \A d \in Presenting(t)' : call'[d].pc \in {"sign", "deliver"}
               /\ \A b \in Browsers : jar'[b] = t => Presenting(t)' # {}
    <3>1. CASE t = call[c].cookie
      <4>1. call[c].pc \in Refreshing /\ c \in Presenting(t)
        BY <1>1, <1>4, <3>1 DEF Presenting, Refreshing
      <4>2. \A d \in Presenting(t) : d = c
        BY <1>1, <2>1, <3>1, <4>1 DEF HomeInv
      <4> QED
        BY <1>5, <4>1, <4>2
    <3>2. CASE t # call[c].cookie
      <4>1. token[t] = "revoked" /\ c \notin Presenting(t)
        BY <2>1, <3>2 DEF Presenting
      <4>2. /\ \A d \in Presenting(t) : call[d].pc \in {"sign", "deliver"} /\ d \in Calls
            /\ \A b \in Browsers : jar[b] = t => Presenting(t) # {}
        BY <1>1, <2>1, <4>1 DEF ReuseInv, Presenting
      <4> QED
        BY <1>5, <4>2
    <3> QED
      BY <3>1, <3>2
  <2>2. ASSUME NEW d \in Calls, call'[d].pc = "reuse"
        PROVE  call'[d].cookie \in astray' \cup ended'
    BY <1>1, <2>2 DEF ReuseInv, At
  <2> QED
    BY <2>1, <2>2 DEF ReuseInv, At
<1> QED
  BY <1>6, <1>7, <1>8, <1>9, <1>10, <1>11

\* A step that presents the token of b's jar, if it has one.
LEMMA TokenPresented ==
  ASSUME IInv, NEW c \in Calls, NEW b \in Browsers, call[c].got = 0,
         call[c].pc \notin Refreshing,
         \A d \in Calls : d # c =>
           /\ call'[d].pc = call[d].pc /\ call'[d].cookie = call[d].cookie
           /\ call'[d].got = call[d].got /\ call'[d].from \in {call[d].from, NoBrowser},
         call'[c].got = 0, call'[c].cookie = jar[b],
         jar[b] = 0 => call'[c].pc = "failed",
         jar[b] # 0 => call'[c].pc = "lookup" /\ call'[c].from = b,
         astray' = astray \cup Clash(b), UNCHANGED <<token, jar, ended, racing>>
  PROVE  TokenInv'
<1> USE DEF IInv, TokenInv
<1>1. /\ 0 \notin Tokens /\ ended \subseteq Tokens
      /\ \A a \in Browsers : jar[a] \in Tokens \cup {0}
  BY Bounds DEF TypeOK
<1>2. \A d \in Calls : /\ call[d].cookie \in Tokens \cup {0} /\ call[d].got \in Tokens \cup {0}
                       /\ call'[d].got = call[d].got
                       /\ call'[d].cookie = IF d = c THEN jar[b] ELSE call[d].cookie
  BY CallFields
<1>3. \A t \in Tokens : Presenting(t)' = IF t = jar[b] THEN Presenting(t) \cup {c}
                                         ELSE Presenting(t)
  BY <1>1 DEF Presenting, Refreshing
<1>4. jar[b] # 0 /\ Presenting(jar[b]) # {} => jar[b] \in astray'
  BY DEF Clash
<1>5. NumberInv'
  <2>1. Answered' = Answered
    BY DEF Answered
  <2>2. Created' = Created
    BY <2>1 DEF Created
  <2> QED
    BY <2>2 DEF NumberInv
<1>6. HomeInv'
  <2>1. ASSUME NEW a \in Browsers, NEW e \in Browsers, jar'[a] = jar'[e], jar'[a] # 0
        PROVE  a = e
    BY <2>1 DEF HomeInv
  <2>2. ASSUME NEW d \in Calls, NEW e \in Calls,
               call'[d].got = call'[e].got, call'[d].got # 0
        PROVE  d = e
    BY <2>2 DEF HomeInv
  <2>3. ASSUME NEW d \in Calls, call'[d].pc \in {"sign", "deliver"}
        PROVE  /\ \A a \in Browsers : jar'[a] # call'[d].got
               /\ \A e \in Calls : call'[e].cookie # call'[d].got
    <3>1. call[d].pc \in {"sign", "deliver"} /\ d # c
      BY <2>3
    <3> QED
      BY <3>1 DEF HomeInv
  <2>4. ASSUME NEW d \in Calls, call'[d].pc \in Refreshing, call'[d].cookie # 0
        PROVE  /\ \A a \in Browsers :
                    jar'[a] = call'[d].cookie => call'[d].from \in {a, NoBrowser}
               /\ \A e \in Presenting(call[d].cookie)' :
                    e = d \/ call'[d].cookie \in astray'
    <3>1. CASE d = c
      <4>1. call'[d].cookie = jar[b] /\ jar[b] \in Tokens /\ call'[d].from = b
        BY <1>1, <2>4, <3>1
      <4>2. \A e \in Presenting(call[d].cookie)' : e = d \/ e \in Presenting(jar[b])
        BY <3>1 DEF Presenting
      <4> QED
        BY <1>4, <1>1, <4>1, <4>2 DEF HomeInv
    <3>2. CASE d # c
      <4>1. /\ call[d].pc \in Refreshing /\ call'[d].from \in {call[d].from, NoBrowser}
            /\ call'[d].cookie = call[d].cookie /\ call[d].cookie \in Tokens
            /\ d \in Presenting(call[d].cookie)
        BY <1>2, <2>4, <3>2 DEF Presenting
      <4>2. \A a \in Browsers : jar[a] = call[d].cookie => call[d].from \in {a, NoBrowser}
        BY <1>1, <4>1 DEF HomeInv
      <4>3. \A e \in Presenting(call[d].cookie) : e = d \/ call[d].cookie \in astray
        BY <1>1, <4>1 DEF HomeInv
      <4>4. ASSUME NEW e \in Presenting(call[d].cookie)'
            PROVE  e = d \/ call[d].cookie \in astray'
        <5>1. e \in Presenting(call[d].cookie) \/ (e = c /\ jar[b] = call[d].cookie)
          BY <4>1 DEF Presenting
        <5> QED
          BY <1>1, <1>4, <4>1, <4>3, <5>1
      <4> QED
        BY <4>1, <4>2, <4>4
    <3> QED
      BY <3>1, <3>2
  <2> QED
    BY ONLY <2>1, <2>2, <2>3, <2>4 DEF HomeInv
<1>7. RevokedInv'
  BY DEF RevokedInv
<1>8. LiveTokensAreHeld'
  <2> SUFFICES ASSUME NEW t \in Tokens, token[t] = "live", t \notin astray
               PROVE  \/ \E a \in Browsers : jar[a] = t
                      \/ \E d \in Calls : call'[d].got = t /\ call'[d].pc \in {"sign", "deliver"}
    BY DEF LiveTokensAreHeld, Live
  <2>1. \A d \in Calls : call[d].got = t => d # c
    BY <1>1
  <2> QED
    BY <2>1 DEF LiveTokensAreHeld, Live
<1>9. RaceInv'
  BY DEF RaceInv, At
<1>10. ReuseInv'
  <2>1. ASSUME NEW t \in Tokens, token'[t] = "revoked", t \notin astray' \cup ended'
        PROVE  /\ \A d \in Presenting(t)' : call'[d].pc \in {"sign", "deliver"}
               /\ \A a \in Browsers : jar'[a] = t => Presenting(t)' # {}
    <3>1. /\ \A d \in Presenting(t) : call[d].pc \in {"sign", "deliver"} /\ d \in Calls
          /\ \A a \in Browsers : jar[a] = t => Presenting(t) # {}
      BY <2>1 DEF ReuseInv, Presenting
    <3>2. t # jar[b]
      BY <1>1, <1>4, <2>1, <3>1
    <3>3. c \notin Presenting(t)
      BY DEF Presenting
    <3> QED
      BY <1>3, <3>1, <3>2, <3>3
  <2> QED
    BY <2>1 DEF ReuseInv, At
<1> QED
  BY <1>5, <1>6, <1>7, <1>8, <1>9, <1>10

\* A step that brings the token of call c to its browser.
LEMMA TokenDelivered ==
  ASSUME IInv, NEW c \in Calls, NEW b \in Browsers, call[c].pc = "deliver", call[c].from = b,
         \A d \in Calls : d # c => call'[d] = call[d],
         call'[c].got = call[c].got, call'[c].cookie = call[c].cookie,
         call'[c].pc \in {"check", "done"},
         \A a \in Browsers : jar'[a] = IF a = b THEN call[c].got ELSE jar[a],
         astray' = astray \cup ({jar[b]} \ {0, call[c].cookie}),
         UNCHANGED <<token, ended, racing>>
  PROVE  TokenInv'
<1> USE DEF IInv, TokenInv
<1> DEFINE n == call[c].got
<1>1. /\ 0 \notin Tokens /\ ended \subseteq Tokens /\ b # NoBrowser
      /\ \A a \in Browsers : jar[a] \in Tokens \cup {0}
  BY Bounds DEF TypeOK
<1>2. \A d \in Calls : /\ call[d].cookie \in Tokens \cup {0} /\ call[d].got \in Tokens \cup {0}
                       /\ call'[d].got = call[d].got /\ call'[d].cookie = call[d].cookie
  BY CallFields
<1>3. /\ n \in Tokens
      /\ \A a \in Browsers : jar[a] # n
      /\ \A d \in Calls : call[d].cookie # n
      /\ token[n] = "live" \/ n \in ended
  BY <1>2 DEF CallInv, Carries, HomeInv, RevokedInv
<1> HIDE DEF n
<1>4. \A a \in Browsers : jar'[a] = IF a = b THEN n ELSE jar[a]
  BY DEF n
<1>5. \A t \in Tokens : \A d \in Presenting(t)' : d \in Presenting(t) /\ d # c
  BY DEF Presenting, Refreshing
<1>6. NumberInv'
  <2>1. Answered' = Answered
    BY DEF Answered
  <2>2. Created' = Created
    BY <2>1 DEF Created
  <2> QED
    BY <2>2 DEF NumberInv
<1>7. HomeInv'
  <2>1. ASSUME NEW a \in Browsers, NEW e \in Browsers, jar'[a] = jar'[e], jar'[a] # 0
        PROVE  a = e
    BY <2>1 DEF HomeInv
  <2>2. ASSUME NEW d \in Calls, NEW e \in Calls,
               call'[d].got = call'[e].got, call'[d].got # 0
        PROVE  d = e
    BY <2>2 DEF HomeInv
  <2>3. ASSUME NEW d \in Calls, call'[d].pc \in {"sign", "deliver"}
        PROVE  /\ \A a \in Browsers : jar'[a] # call'[d].got
               /\ \A e \in Calls : call'[e].cookie # call'[d].got
    <3>1. d # c /\ call[d].pc \in {"sign", "deliver"} /\ call[d].got \in Tokens
      BY <1>2, <2>3 DEF CallInv, Carries
    <3>2. call[d].got # n
      BY <1>1, <3>1 DEF HomeInv, n
    <3> QED
      BY <1>4, <3>1, <3>2 DEF HomeInv
  <2>4. ASSUME NEW d \in Calls, call'[d].pc \in Refreshing, call'[d].cookie # 0
        PROVE  /\ \A a \in Browsers :
                    jar'[a] = call'[d].cookie => call'[d].from \in {a, NoBrowser}
               /\ \A e \in Presenting(call[d].cookie)' :
                    e = d \/ call'[d].cookie \in astray'
    <3>1. /\ d # c /\ call'[d] = call[d] /\ call[d].pc \in Refreshing
          /\ call[d].cookie \in Tokens /\ call[d].cookie # n
      BY <1>2, <1>3, <2>4 DEF Refreshing
    <3>2. \A a \in Browsers : jar[a] = call[d].cookie => call[d].from \in {a, NoBrowser}
      BY <1>1, <3>1 DEF HomeInv
    <3>3. \A e \in Presenting(call[d].cookie) : e = d \/ call[d].cookie \in astray
      BY <1>1, <3>1 DEF HomeInv
    <3>4. \A e \in Presenting(call[d].cookie)' : e \in Presenting(call[d].cookie)
      BY DEF Presenting, Refreshing
    <3> QED
      BY <1>4, <3>1, <3>2, <3>3, <3>4
  <2> QED
    BY ONLY <2>1, <2>2, <2>3, <2>4 DEF HomeInv
<1>8. RevokedInv'
  BY DEF RevokedInv
<1>9. LiveTokensAreHeld'
  <2> SUFFICES ASSUME NEW t \in Tokens, token[t] = "live", t \notin astray'
               PROVE  \/ \E a \in Browsers : jar'[a] = t
                      \/ \E d \in Calls : call'[d].got = t /\ call'[d].pc \in {"sign", "deliver"}
    BY DEF LiveTokensAreHeld, Live
  <2>1. CASE \E a \in Browsers : jar[a] = t
    <3>1. PICK a \in Browsers : jar[a] = t
      BY <2>1
    <3>2. t # call[c].cookie
      BY <1>1, <1>3 DEF RevokedInv, n
    <3>3. a # b
      BY <1>1, <3>1, <3>2
    <3> QED
      BY <3>1, <3>3
  <2> QED
    BY <2>1 DEF LiveTokensAreHeld, Live
<1>10. RaceInv'
  BY DEF RaceInv, At
<1>11. ReuseInv'
  <2>1. ASSUME NEW t \in Tokens, token'[t] = "revoked", t \notin astray' \cup ended'
        PROVE  /\ \A d \in Presenting(t)' : call'[d].pc \in {"sign", "deliver"}
               /\ \A a \in Browsers : jar'[a] = t => Presenting(t)' # {}
    <3>1. /\ \A d \in Presenting(t) : call[d].pc \in {"sign", "deliver"} /\ d \in Calls
          /\ \A a \in Browsers : jar[a] = t => Presenting(t) # {}
      BY <2>1 DEF ReuseInv, Presenting
    <3>2. ASSUME NEW a \in Browsers, jar'[a] = t
          PROVE  Presenting(t)' # {}
      <4>1. t # n
        BY <1>3, <2>1
      <4>2. a # b /\ jar[a] = t
        BY <1>4, <3>2, <4>1
      <4>3. t # call[c].cookie
        BY <1>1, <4>2 DEF HomeInv, Refreshing
      <4>4. PICK d \in Presenting(t) : TRUE
        BY <3>1, <4>2
      <4>5. d # c /\ d \in Calls
        BY <4>3 DEF Presenting
      <4>6. d \in Presenting(t)'
        BY <4>5 DEF Presenting
      <4> QED
        BY <4>6
    <3> QED
      BY <1>5, <3>1, <3>2
  <2> QED
    BY <2>1 DEF ReuseInv, At
<1> QED
  BY <1>6, <1>7, <1>8, <1>9, <1>10, <1>11

-----------------------------------------------------------------------------
(* Why a user is turned away.                                              *)

\* A reason stays one: time passes, and what was revoked is not forgotten.
LEMMA ReasonsStay ==
  ASSUME IInv, TypeOK', active' => active,
         astray \subseteq astray', ended \subseteq ended', denied \subseteq denied',
         cutoff <= cutoff', now <= now',
         \A t \in Tokens : token[t] # "none" => born'[t] = born[t],
         \A d \in Calls : call[d].pc = "failed" /\ call[d].got # 0
                            => iat'[call[d].got] = iat[call[d].got],
         \A d \in Calls : call'[d].pc = "failed" =>
           \/ /\ call[d].pc = "failed" /\ call'[d].cookie = call[d].cookie
              /\ call'[d].got = call[d].got
           \/ ~active' \/ Spent(call[d].cookie)' \/ Withdrawn(call[d].got)'
  PROVE  TurnedAwayForAReason'
<1> USE DEF IInv, TokenInv
<1> SUFFICES ASSUME NEW d \in Calls, call[d].pc = "failed", call'[d].pc = "failed",
                    call'[d].cookie = call[d].cookie, call'[d].got = call[d].got
             PROVE  ~active' \/ Spent(call[d].cookie)' \/ Withdrawn(call[d].got)'
  BY DEF TurnedAwayForAReason, At
<1>1. /\ call[d].cookie \in Tokens \cup {0} /\ call[d].got \in Tokens \cup {0}
      /\ RefreshTTL \in Nat /\ AccessTTL \in Nat /\ MaxNow \in Nat
  BY CallFields, Bounds
<1>2. now \in Nat /\ now' \in Nat /\ cutoff \in Nat /\ cutoff' \in Nat
  BY DEF TypeOK
<1>3. \A t \in Tokens : born[t] \in Nat /\ iat[t] \in Nat
  BY DEF TypeOK
<1>4. CASE Spent(call[d].cookie)
  <2>1. CASE call[d].cookie # 0 /\ Expired(call[d].cookie)
    <3>1. born'[call[d].cookie] = born[call[d].cookie]
      BY <1>1, <2>1 DEF NumberInv
    <3>2. now' >= born[call[d].cookie] + RefreshTTL
      BY <1>1, <1>2, <1>3, <2>1 DEF Expired
    <3> QED
      BY <3>1, <3>2 DEF Spent, Expired
  <2> QED
    BY <1>4, <2>1 DEF Spent
<1>5. CASE Withdrawn(call[d].got)
  <2>1. /\ call[d].got \in Tokens /\ call[d].got # 0
        /\ iat'[call[d].got] = iat[call[d].got] /\ iat[call[d].got] \in Nat
    BY <1>1, <1>3, <1>5 DEF Withdrawn
  <2>2. CASE Lapsed(call[d].got)
    <3>1. now' >= iat[call[d].got] + AccessTTL
      BY <1>1, <1>2, <2>1, <2>2 DEF Lapsed
    <3> QED
      BY <2>1, <3>1 DEF Withdrawn, Lapsed
  <2>3. CASE Revoked(call[d].got)
    BY <1>2, <2>1, <2>3 DEF Withdrawn, Revoked
  <2> QED
    BY <1>5, <2>2, <2>3 DEF Withdrawn
<1> QED
  BY <1>4, <1>5 DEF TurnedAwayForAReason, At

-----------------------------------------------------------------------------
(* One lemma per action, one step per conjunct of the invariant.           *)

LEMMA RequestStep ==
  ASSUME IInv, NEW c \in Calls, NEW b \in Browsers, NEW op \in Ops \ {"load"},
         Request(c, b, op)
  PROVE  IInv'
<1> USE DEF IInv, TokenInv, db, redis, client, history
<1>1. call[c].pc = "new" /\ UNCHANGED <<db, redis, now, client, history, faults>>
  BY DEF Request, At
<1>2. /\ call' \in [Calls -> Call]
      /\ \A d \in Calls : d # c => call'[d] = call[d]
      /\ call'[c].pc = (IF op = "login" THEN "verify" ELSE "check")
      /\ call'[c].cookie = (IF op = "logout" THEN jar[b] ELSE 0)
      /\ call'[c].got = 0 /\ call'[c].again = FALSE /\ call'[c].op = op
  <2> DEFINE t == IF op = "logout" THEN jar[b] ELSE 0
             p == IF op = "login" THEN "verify" ELSE "check"
             k == Made(op, b, access[b], t, p)
  <2>1. call' = [call EXCEPT ![c] = k]
    BY DEF Request, Made
  <2>2. access[b] \in Tokens \cup {0} /\ t \in Tokens \cup {0} /\ p \in Pcs
    BY DEF TypeOK, Pcs
  <2>3. k \in Call /\ k.pc = p /\ k.cookie = t /\ k.got = 0 /\ k.again = FALSE /\ k.op = op
    <3>1. b \in Browsers /\ op \in Ops
      OBVIOUS
    <3>2. \A x \in Tokens \cup {0}, y \in Tokens \cup {0}, z \in Pcs :
            /\ Made(op, b, x, y, z) \in Call
            /\ Made(op, b, x, y, z).pc = z /\ Made(op, b, x, y, z).cookie = y
            /\ Made(op, b, x, y, z).got = 0 /\ Made(op, b, x, y, z).again = FALSE
            /\ Made(op, b, x, y, z).op = op
      BY <3>1, MadeIsACall
    <3>3. p \in Pcs
      BY <2>2
    <3>4. t \in Tokens \cup {0} /\ access[b] \in Tokens \cup {0}
      BY <2>2
    <3> HIDE DEF t, p
    <3>5. k \in Call
      BY ONLY <3>2, <3>3, <3>4, ZenonT(20)
    <3>6. k.pc = p /\ k.cookie = t
      BY ONLY <3>2, <3>3, <3>4, SMTT(20)
    <3>7. k.got = 0 /\ k.again = FALSE
      BY ONLY <3>2, <3>3, <3>4, SMTT(20)
    <3>8. k.op = op
      BY ONLY <3>2, <3>3, <3>4, SMTT(20)
    <3> QED
      BY <3>5, <3>6, <3>7, <3>8
  <2>4. call'[c] = k /\ \A d \in Calls : d # c => call'[d] = call[d]
    BY <2>1 DEF TypeOK
  <2>5. call' \in [Calls -> Call]
    BY <2>1, <2>3 DEF TypeOK
  <2> QED
    BY <2>3, <2>4, <2>5
<1>3. TypeOK'
  BY <1>1, <1>2 DEF TypeOK
<1>4. CallInv'
  BY <1>2 DEF CallInv, Carries
<1>5. TokenInv'
  <2>1. call[c].cookie = 0 /\ call[c].got = 0
    BY <1>1 DEF CallInv, Carries
  <2>2. KeepsItsTokens(c)
    BY <1>2, <2>1 DEF KeepsItsTokens, Refreshing
  <2> QED
    BY <1>1, <1>2, <2>2, TokensIdle
<1>6. cutoff' <= now'
  BY <1>1
<1>7. TurnedAwayForAReason'
  <2>1. now <= now' /\ cutoff <= cutoff'
    BY <1>1 DEF TypeOK
  <2> QED
    BY <1>1, <1>2, <1>3, <2>1, ReasonsStay
<1> QED
  BY <1>3, <1>4, <1>5, <1>6, <1>7

LEMMA LoadStep ==
  ASSUME IInv, NEW c \in Calls, NEW b \in Browsers, Load(c, b)
  PROVE  IInv'
<1> USE DEF IInv, TokenInv, db, redis, client, history
<1>1. /\ call[c].pc = "new" /\ astray' = astray \cup Clash(b)
      /\ UNCHANGED <<db, redis, now, jar, ended, racing, faults>>
  BY DEF Load, At
<1>2. /\ call' \in [Calls -> Call]
      /\ \A d \in Calls : d # c =>
           /\ call'[d].pc = call[d].pc /\ call'[d].cookie = call[d].cookie
           /\ call'[d].got = call[d].got /\ call'[d].op = call[d].op
           /\ call'[d].again = call[d].again /\ call'[d].access = call[d].access
           /\ call'[d].from \in {call[d].from, NoBrowser}
      /\ call'[c].cookie = jar[b] /\ call'[c].got = 0 /\ call'[c].again = FALSE
      /\ jar[b] = 0 => call'[c].pc = "failed"
      /\ jar[b] # 0 => call'[c].pc = "lookup" /\ call'[c].from = b
  <2> DEFINE k == [NotMade EXCEPT !.op = "load", !.from = b]
  <2>1. k \in Call /\ k.got = 0 /\ k.again = FALSE /\ k.from = b
    <3>1. k \in Call
      BY NotMadeIsACall DEF Call, Ops
    <3>2. k.got = 0 /\ k.again = FALSE /\ k.from = b
      BY DEF NotMade
    <3> QED
      BY <3>1, <3>2
  <2> HIDE DEF k
  <2>2. call'[c] = Sent(k, b)
    BY DEF Load, k
  <2>3. /\ call'[c] \in Call
        /\ call'[c].cookie = jar[b] /\ call'[c].got = 0 /\ call'[c].again = FALSE
        /\ jar[b] = 0 => call'[c].pc = "failed"
        /\ jar[b] # 0 => call'[c].pc = "lookup" /\ call'[c].from = b
    <3>1. /\ Sent(k, b) \in Call
          /\ Sent(k, b).cookie = jar[b] /\ Sent(k, b).got = k.got
          /\ jar[b] = 0 => Sent(k, b).pc = "failed" /\ Sent(k, b).again = FALSE
          /\ jar[b] # 0 => /\ Sent(k, b).pc = "lookup" /\ Sent(k, b).from = k.from
                           /\ Sent(k, b).again = k.again
      BY <2>1, SentGives
    <3> QED
      BY <2>1, <2>2, <3>1
  <2>4. ASSUME NEW d \in Calls, d # c
        PROVE  /\ call'[d] \in Call
               /\ call'[d].pc = call[d].pc /\ call'[d].cookie = call[d].cookie
               /\ call'[d].got = call[d].got /\ call'[d].op = call[d].op
               /\ call'[d].again = call[d].again /\ call'[d].access = call[d].access
               /\ call'[d].from \in {call[d].from, NoBrowser}
    <3>1. call[d] \in Call
      BY CallFields
    <3>2. call'[d] = call[d] \/ call'[d] = [call[d] EXCEPT !.from = NoBrowser]
      BY <2>4 DEF Load
    <3> QED
      BY <3>1, <3>2 DEF Call
  <2>5. call' = [d \in Calls |-> call'[d]]
    BY DEF Load
  <2> QED
    BY <2>3, <2>4, <2>5
<1>3. TypeOK'
  <2>1. access' \in [Browsers -> Tokens \cup {0}] /\ astray' \subseteq Tokens
    BY DEF Load, Clash, TypeOK
  <2> QED
    BY <1>1, <1>2, <2>1 DEF TypeOK
<1>4. CallInv'
  <2>1. Carries(call'[c])
    BY <1>2 DEF Carries
  <2>2. \A d \in Calls : d # c => Carries(call'[d])
    BY <1>2 DEF CallInv, Carries
  <2> QED
    BY <2>1, <2>2 DEF CallInv
<1>5. TokenInv'
  <2>1. call[c].pc \notin Refreshing /\ call[c].got = 0
    BY <1>1 DEF Refreshing, CallInv, Carries
  <2> QED
    BY <1>1, <1>2, <2>1, TokenPresented
<1>6. cutoff' <= now'
  BY <1>1
<1>7. TurnedAwayForAReason'
  <2>1. now <= now' /\ cutoff <= cutoff'
    BY <1>1 DEF TypeOK
  <2>2. ASSUME NEW d \in Calls, call'[d].pc = "failed"
        PROVE  \/ /\ call[d].pc = "failed" /\ call'[d].cookie = call[d].cookie
                  /\ call'[d].got = call[d].got
               \/ Spent(call[d].cookie)'
    <3>1. CASE d = c
      BY <1>2, <2>2 DEF Spent
    <3>2. CASE d # c
      BY <1>2, <2>2, <3>2
    <3> QED
      BY <3>1, <3>2
  <2> QED
    BY <1>1, <1>3, <2>1, <2>2, ReasonsStay
<1> QED
  BY <1>3, <1>4, <1>5, <1>6, <1>7

\* A refused request ends with its page, or presents the jar's token.
LEMMA RefusedStep ==
  ASSUME IInv, NEW c \in Calls, Refused(c)
  PROVE  IInv'
<1> USE DEF IInv, TokenInv, db, redis, client, history
<1>1. /\ call[c].pc = "refused" /\ call[c].got = 0 /\ call[c].again = FALSE
      /\ UNCHANGED <<db, redis, now, client, ended, racing, faults>>
  BY DEF Refused, At, CallInv, Carries
<1>2. now <= now' /\ cutoff <= cutoff' /\ cutoff' <= now'
  BY <1>1 DEF TypeOK
<1>3. CASE call[c].from = NoBrowser
  <2>1. Moved(c, "done") /\ astray' = astray
    BY <1>3, GotoMoves DEF Refused, Pcs
  <2>2. TypeOK'
    BY <1>1, <2>1 DEF Moved, TypeOK
  <2>3. CallInv'
    BY <2>1 DEF Moved, CallInv, Carries
  <2>4. TokenInv'
    <3>1. KeepsItsTokens(c)
      BY <1>1, <2>1 DEF Moved, KeepsItsTokens, Refreshing
    <3> QED
      BY <1>1, <2>1, <3>1, TokensIdle DEF Moved
  <2>5. TurnedAwayForAReason'
    <3>1. \A d \in Calls : call'[d].pc = "failed" => call'[d] = call[d]
      BY <2>1 DEF Moved
    <3> QED
      BY <1>1, <1>2, <2>1, <2>2, <3>1, ReasonsStay
  <2> QED
    BY <1>2, <2>2, <2>3, <2>4, <2>5
<1>4. CASE call[c].from # NoBrowser
  <2> DEFINE b == call[c].from
  <2>1. b \in Browsers /\ call[c] \in Call
    BY <1>4, CallFields
  <2>2. call' = [call EXCEPT ![c] = Sent(call[c], b)] /\ astray' = astray \cup Clash(b)
    BY <1>4 DEF Refused
  <2>3. /\ call'[c] = Sent(call[c], b)
        /\ \A d \in Calls : d # c => call'[d] = call[d]
    BY <2>2 DEF TypeOK
  <2>4. /\ call'[c] \in Call /\ call'[c].cookie = jar[b] /\ call'[c].got = 0
        /\ call'[c].again = FALSE
        /\ jar[b] = 0 => call'[c].pc = "failed"
        /\ jar[b] # 0 => call'[c].pc = "lookup" /\ call'[c].from = b
    <3>1. /\ Sent(call[c], b) \in Call
          /\ Sent(call[c], b).cookie = jar[b] /\ Sent(call[c], b).got = call[c].got
          /\ jar[b] = 0 => Sent(call[c], b).pc = "failed" /\ Sent(call[c], b).again = FALSE
          /\ jar[b] # 0 => /\ Sent(call[c], b).pc = "lookup"
                           /\ Sent(call[c], b).from = call[c].from
                           /\ Sent(call[c], b).again = call[c].again
      BY <2>1, SentGives
    <3> QED
      BY <1>1, <2>3, <3>1
  <2> HIDE DEF b
  <2>5. TypeOK'
    <3>1. call' \in [Calls -> Call]
      BY <2>2, <2>4 DEF TypeOK
    <3>2. astray' \subseteq Tokens
      BY <2>1, <2>2 DEF Clash, TypeOK
    <3> QED
      BY <1>1, <3>1, <3>2 DEF TypeOK
  <2>6. CallInv'
    <3>1. Carries(call'[c])
      BY <2>4 DEF Carries
    <3> QED
      BY <2>3, <3>1 DEF CallInv
  <2>7. TokenInv'
    <3>1. call[c].pc \notin Refreshing
      BY <1>1 DEF Refreshing
    <3> QED
      BY <1>1, <2>1, <2>2, <2>4, <3>1, TokenPresented
  <2>8. TurnedAwayForAReason'
    <3>1. ASSUME NEW d \in Calls, call'[d].pc = "failed"
          PROVE  call'[d] = call[d] \/ Spent(call[d].cookie)'
      <4>1. CASE d = c
        BY <2>4, <3>1, <4>1 DEF Spent
      <4>2. CASE d # c
        BY <2>3, <4>2
      <4> QED
        BY <4>1, <4>2
    <3> QED
      BY <1>1, <1>2, <2>2, <2>5, <3>1, ReasonsStay
  <2> QED
    BY <1>2, <2>5, <2>6, <2>7, <2>8
<1> QED
  BY <1>3, <1>4

LEMMA CheckStep ==
  ASSUME IInv, NEW c \in Calls, Check(c)
  PROVE  IInv'
<1> USE DEF IInv, TokenInv, db, redis, client, history
<1>1. /\ call[c].pc = "check" /\ UNCHANGED <<db, redis, now, client, history>>
      /\ faults' \in 0..MaxFaults
  BY FaultCounts DEF Check, At, TypeOK
<1>2. PICK p \in {"done", "revoke", "sweep", "refused", "failed"} :
        /\ Moved(c, p)
        /\ p \in {"sweep", "refused", "revoke"} => call[c].again = FALSE
        /\ p = "sweep" => call[c].cookie = 0
        /\ p = "failed" => call[c].cookie = 0 \/ Withdrawn(call[c].got)
  <2> DEFINE k == call[c]
             j == [k EXCEPT !.access = 0]
  <2>1. /\ k \in Call /\ k.again \in BOOLEAN /\ k.pc = "check"
        /\ k.again => k.op = "api" /\ k.got # 0 /\ k.access = k.got
        /\ k.op # "logout" /\ ~k.again => k.cookie = 0
    BY <1>1, CallFields DEF CallInv, Carries
  <2>2. /\ j \in Call /\ j.cookie = k.cookie /\ j.got = k.got /\ j.op = k.op
        /\ j.from = k.from /\ j.again = k.again
    BY <2>1 DEF Call
  <2>3. {"done", "revoke", "sweep", "refused", "failed"} \subseteq Pcs
    BY DEF Pcs
  <2>4. \/ Goto(c, Passed(k.op)) \/ Goto(c, "done")
        \/ /\ call' = [call EXCEPT ![c] = On(j, Turned(k))]
           /\ k.op = "logout" \/ Lapsed(k.access) \/ Revoked(k.access)
    BY DEF Check
  <2> HIDE DEF j
  <2>5. CASE Goto(c, "done")
    BY <2>3, <2>5, GotoMoves
  <2>6. CASE Goto(c, Passed(k.op))
    <3>1. CASE k.op = "api"
      BY <2>3, <2>6, <3>1, GotoMoves DEF Passed
    <3>2. CASE k.op = "logout"
      <4>1. Moved(c, "revoke")
        BY <2>3, <2>6, <3>2, GotoMoves DEF Passed
      <4> QED
        BY <2>1, <3>2, <4>1
    <3>3. CASE k.op \notin {"api", "logout"}
      <4>1. Goto(c, "sweep")
        BY <2>6, <3>3 DEF Passed
      <4>2. Moved(c, "sweep")
        BY <2>3, <4>1, GotoMoves
      <4> QED
        BY <2>1, <3>3, <4>2
    <3> QED
      BY <3>1, <3>2, <3>3
  <2>7. CASE /\ call' = [call EXCEPT ![c] = On(j, Turned(k))]
             /\ k.op = "logout" \/ Lapsed(k.access) \/ Revoked(k.access)
    <3>1. CASE k.op = "logout"
      <4>1. Turned(k) = "revoke" /\ k.again = FALSE
        BY <2>1, <3>1 DEF Turned
      <4>2. Moved(c, "revoke")
        BY <2>2, <2>3, <2>7, <4>1, OnMoves
      <4> QED
        BY <4>1, <4>2
    <3>2. CASE k.op = "api" /\ k.again = FALSE
      <4>1. Turned(k) = "refused"
        BY <3>2 DEF Turned
      <4>2. Moved(c, "refused")
        BY <2>2, <2>3, <2>7, <3>2, <4>1, OnMoves
      <4> QED
        BY <3>2, <4>2
    <3>3. CASE k.op # "logout" /\ ~(k.op = "api" /\ k.again = FALSE)
      <4>1. Turned(k) = "failed"
        BY <3>3 DEF Turned
      <4>2. Moved(c, "failed")
        BY <2>2, <2>3, <2>7, <4>1, OnMoves
      <4>3. k.cookie = 0 \/ Withdrawn(k.got)
        BY <2>1, <2>7, <3>3 DEF Withdrawn
      <4> QED
        BY <4>2, <4>3
    <3> QED
      BY <3>1, <3>2, <3>3
  <2> QED
    BY <2>4, <2>5, <2>6, <2>7
<1>3. TypeOK'
  BY <1>1, <1>2 DEF Moved, TypeOK
<1>4. CallInv'
  BY <1>1, <1>2 DEF Moved, CallInv, Carries
<1>5. TokenInv'
  <2>1. KeepsItsTokens(c)
    BY <1>1, <1>2 DEF Moved, KeepsItsTokens, Refreshing
  <2> QED
    BY <1>1, <1>2, <2>1, TokensIdle DEF Moved
<1>6. cutoff' <= now'
  BY <1>1
<1>7. TurnedAwayForAReason'
  <2>1. now <= now' /\ cutoff <= cutoff'
    BY <1>1 DEF TypeOK
  <2>2. ASSUME NEW d \in Calls, call'[d].pc = "failed"
        PROVE  \/ call'[d] = call[d]
               \/ Spent(call[d].cookie)' \/ Withdrawn(call[d].got)'
    <3>1. CASE d = c
      BY <1>1, <1>2, <2>2 DEF Moved, Spent, Withdrawn, Lapsed, Revoked
    <3>2. CASE d # c
      BY <1>2, <3>2 DEF Moved
    <3> QED
      BY <3>1, <3>2
  <2> QED
    BY <1>1, <1>3, <2>1, <2>2, ReasonsStay
<1> QED
  BY <1>3, <1>4, <1>5, <1>6, <1>7

LEMMA LookupStep ==
  ASSUME IInv, NEW c \in Calls, Lookup(c)
  PROVE  IInv'
<1> USE DEF IInv, TokenInv, db, redis, client, history
<1>1. call[c].pc = "lookup" /\ UNCHANGED <<db, redis, now, client, history, faults>>
  BY DEF Lookup, At
<1>2. PICK p \in {"reuse", "failed", "rotate"} :
        /\ Moved(c, p)
        /\ p = "reuse" => call[c].cookie \in astray \cup ended
        /\ p = "rotate" => call[c].cookie \notin ended
        /\ p = "failed" => Expired(call[c].cookie) \/ ~active
  <2> DEFINE t == call[c].cookie
             p == IF token[t] = "revoked" THEN "reuse"
                  ELSE IF Expired(t) \/ ~active THEN "failed" ELSE "rotate"
  <2>1. p \in {"reuse", "failed", "rotate"} /\ p \in Pcs
    BY DEF Pcs, Refreshing
  <2>2. call' = [call EXCEPT ![c] = On([@ EXCEPT !.stamp = now], p)]
    BY DEF Lookup
  <2>3. t \in Tokens
    BY <1>1, CallFields DEF CallInv, Carries
  <2>4. token[t] = "revoked" => t \in astray \cup ended
    BY <1>1, <2>3 DEF ReuseInv, Presenting, Refreshing
  <2>5. t \in ended => token[t] = "revoked"
    BY DEF RevokedInv
  <2>6. p = "reuse" => token[t] = "revoked"
    OBVIOUS
  <2>7. p = "rotate" => token[t] # "revoked"
    OBVIOUS
  <2>8. p = "failed" => Expired(t) \/ ~active
    OBVIOUS
  <2> HIDE DEF p
  <2>9. Moved(c, p)
    BY <2>1, <2>2, StampedMoves
  <2> QED
    BY <2>1, <2>4, <2>5, <2>6, <2>7, <2>8, <2>9
<1>3. TypeOK'
  BY <1>1, <1>2 DEF Moved, TypeOK
<1>4. CallInv'
  BY <1>1, <1>2 DEF Moved, CallInv, Carries
<1>5. TokenInv'
  <2>1. KeepsItsTokens(c)
    BY <1>1, <1>2 DEF Moved, KeepsItsTokens, Refreshing
  <2> QED
    BY <1>1, <1>2, <2>1, TokensIdle DEF Moved
<1>6. cutoff' <= now'
  BY <1>1
<1>7. TurnedAwayForAReason'
  <2>1. now <= now' /\ cutoff <= cutoff'
    BY <1>1 DEF TypeOK
  <2>2. ASSUME NEW d \in Calls, call'[d].pc = "failed"
        PROVE  call'[d] = call[d] \/ ~active' \/ Spent(call[d].cookie)'
    <3>1. CASE d = c
      BY <1>1, <1>2, <2>2 DEF Moved, Spent, Expired
    <3>2. CASE d # c
      BY <1>2, <3>2 DEF Moved
    <3> QED
      BY <3>1, <3>2
  <2> QED
    BY <1>1, <1>3, <2>1, <2>2, ReasonsStay
<1> QED
  BY <1>3, <1>4, <1>5, <1>6, <1>7

\* The reuse that set it off is the reason of the 401.
LEMMA AlarmStep ==
  ASSUME IInv, NEW c \in Calls, Alarm(c)
  PROVE  IInv'
<1> USE DEF IInv, TokenInv, db, redis, client, history
<1>1. /\ call[c].pc = "reuse"
      /\ UNCHANGED <<redis, now, client, faults>>
  BY DEF Alarm, At
<1>2. Moved(c, "failed")
  BY GotoMoves DEF Alarm, Pcs
<1>3. /\ UNCHANGED <<born, iat, active, astray>>
      /\ ended' = ended \cup (Live)
      /\ token' = [t \in Tokens |-> IF t \in Live THEN "revoked" ELSE token[t]]
  BY DEF Alarm, End
<1>4. End(Live)
  BY DEF Alarm
<1>5. TypeOK'
  <2>1. ended' \subseteq Tokens /\ racing' \subseteq Calls
    BY <1>4 DEF TypeOK, Live, End
  <2> QED
    BY <1>1, <1>2, <1>3, <2>1 DEF Moved, TypeOK
<1>6. CallInv'
  BY <1>2 DEF Moved, CallInv, Carries
<1>7. TokenInv'
  <2>1. KeepsItsTokens(c)
    BY <1>1, <1>2 DEF Moved, KeepsItsTokens, Refreshing
  <2>2. \A d \in Calls : At(d, "rotate") /\ call[d].cookie \in Live => d \in racing'
    BY <1>4 DEF End
  <2>3. JarsEmpty /\ Live \in SUBSET Live /\ racing \subseteq racing'
    BY <1>1, <1>4 DEF JarsEmpty, End
  <2> QED
    BY <1>2, <1>3, <2>1, <2>2, <2>3, TokensKept DEF Moved
<1>8. cutoff' <= now'
  BY <1>1
<1>9. TurnedAwayForAReason'
  <2>1. now <= now' /\ cutoff <= cutoff'
    BY <1>1 DEF TypeOK
  <2>2. ASSUME NEW d \in Calls, call'[d].pc = "failed"
        PROVE  call'[d] = call[d] \/ Spent(call[d].cookie)'
    <3>1. CASE d = c
      BY <1>1, <1>2, <1>3 DEF Moved, Spent, ReuseInv, At
    <3>2. CASE d # c
      BY <1>2, <3>2 DEF Moved
    <3> QED
      BY <3>1, <3>2
  <2> QED
    BY <1>1, <1>3, <1>5, <2>1, <2>2, ReasonsStay
<1> QED
  BY <1>5, <1>6, <1>7, <1>8, <1>9

\* The cookie of a logout is revoked from here on.
LEMMA RevokePresentedStep ==
  ASSUME IInv, NEW c \in Calls, RevokePresented(c)
  PROVE  IInv'
<1> USE DEF IInv, TokenInv, db, redis, client, history
<1>1. /\ call[c].pc = "revoke"
      /\ UNCHANGED <<redis, now, client, faults>>
  BY DEF RevokePresented, At
<1>2. Moved(c, "deny")
  BY GotoMoves DEF RevokePresented, Pcs
<1>3. /\ UNCHANGED <<born, iat, active, astray>>
      /\ ended' = ended \cup ({call[c].cookie} \cap Live)
      /\ token' = [t \in Tokens |-> IF t \in {call[c].cookie} \cap Live THEN "revoked" ELSE token[t]]
  BY DEF RevokePresented, End
<1>4. End({call[c].cookie} \cap Live)
  BY DEF RevokePresented
<1>5. TypeOK'
  <2>1. ended' \subseteq Tokens /\ racing' \subseteq Calls
    BY <1>4 DEF TypeOK, Live, End
  <2> QED
    BY <1>1, <1>2, <1>3, <2>1 DEF Moved, TypeOK
<1>6. CallInv'
  BY <1>1, <1>2 DEF Moved, CallInv, Carries
<1>7. TokenInv'
  <2>1. KeepsItsTokens(c)
    <3>1. call[c].cookie = 0 \/ token'[call[c].cookie] = "revoked"
      <4>1. call[c].cookie \in Tokens \cup {0}
        BY CallFields
      <4>2. call[c].cookie # 0 => token[call[c].cookie] \in {"live", "revoked"}
        BY <4>1 DEF NumberInv, TypeOK
      <4> QED
        BY <1>3, <4>1, <4>2 DEF Live
    <3> QED
      BY <1>1, <1>2, <3>1 DEF Moved, KeepsItsTokens, Refreshing
  <2>2. \A d \in Calls : At(d, "rotate") /\ call[d].cookie \in {call[c].cookie} \cap Live => d \in racing'
    BY <1>4 DEF End
  <2>3. JarsEmpty /\ {call[c].cookie} \cap Live \in SUBSET Live /\ racing \subseteq racing'
    BY <1>1, <1>4 DEF JarsEmpty, End
  <2> QED
    BY <1>2, <1>3, <2>1, <2>2, <2>3, TokensKept DEF Moved
<1>8. cutoff' <= now'
  BY <1>1
<1>9. TurnedAwayForAReason'
  <2>1. now <= now' /\ cutoff <= cutoff'
    BY <1>1 DEF TypeOK
  <2>2. \A d \in Calls : call'[d].pc = "failed" => call'[d] = call[d]
    BY <1>2 DEF Moved
  <2> QED
    BY <1>1, <1>3, <1>5, <2>1, <2>2, ReasonsStay
<1> QED
  BY <1>5, <1>6, <1>7, <1>8, <1>9

LEMMA SweepStep ==
  ASSUME IInv, NEW c \in Calls, Sweep(c)
  PROVE  IInv'
<1> USE DEF IInv, TokenInv, db, redis, client, history
<1>1. /\ call[c].pc = "sweep"
      /\ UNCHANGED <<redis, now, client, faults>>
  BY DEF Sweep, At
<1>2. Moved(c, "cut")
  BY GotoMoves DEF Sweep, Pcs
<1>3. /\ UNCHANGED <<born, iat, active, astray>>
      /\ ended' = ended \cup (Live)
      /\ token' = [t \in Tokens |-> IF t \in Live THEN "revoked" ELSE token[t]]
  BY DEF Sweep, End
<1>4. End(Live)
  BY DEF Sweep
<1>5. TypeOK'
  <2>1. ended' \subseteq Tokens /\ racing' \subseteq Calls
    BY <1>4 DEF TypeOK, Live, End
  <2> QED
    BY <1>1, <1>2, <1>3, <2>1 DEF Moved, TypeOK
<1>6. CallInv'
  BY <1>1, <1>2 DEF Moved, CallInv, Carries
<1>7. TokenInv'
  <2>1. KeepsItsTokens(c)
    BY <1>1, <1>2 DEF Moved, KeepsItsTokens, Refreshing
  <2>2. \A d \in Calls : At(d, "rotate") /\ call[d].cookie \in Live => d \in racing'
    BY <1>4 DEF End
  <2>3. JarsEmpty /\ Live \in SUBSET Live /\ racing \subseteq racing'
    BY <1>1, <1>4 DEF JarsEmpty, End
  <2> QED
    BY <1>2, <1>3, <2>1, <2>2, <2>3, TokensKept DEF Moved
<1>8. cutoff' <= now'
  BY <1>1
<1>9. TurnedAwayForAReason'
  <2>1. now <= now' /\ cutoff <= cutoff'
    BY <1>1 DEF TypeOK
  <2>2. \A d \in Calls : call'[d].pc = "failed" => call'[d] = call[d]
    BY <1>2 DEF Moved
  <2> QED
    BY <1>1, <1>3, <1>5, <2>1, <2>2, ReasonsStay
<1> QED
  BY <1>5, <1>6, <1>7, <1>8, <1>9

\* The successor is new; nobody else presents the token that it replaces.
LEMMA RotateStep ==
  ASSUME IInv, NEW c \in Calls, Rotate(c)
  PROVE  IInv'
<1> USE DEF IInv, TokenInv, db, redis, client, history
<1>1. /\ call[c].pc = "rotate" /\ call[c].got = 0
      /\ UNCHANGED <<active, redis, now, client, history, faults>>
  BY DEF Rotate, At, CallInv, Carries
<1>2. /\ call' \in [Calls -> Call]
      /\ \A d \in Calls : d # c => call'[d] = call[d]
      /\ call'[c].got = NextToken /\ call'[c].pc = "sign"
      /\ call'[c].cookie = call[c].cookie /\ call'[c].from = call[c].from
      /\ call'[c].again = call[c].again
  <2> DEFINE k == [call[c] EXCEPT !.got = NextToken, !.stamp = 0, !.pc = "sign"]
  <2>1. NextToken \in Tokens /\ 0 \in 0..MaxNow
    BY <1>1, NextIsNew, Bounds
  <2>2. /\ k \in Call /\ k.got = NextToken /\ k.pc = "sign" /\ k.cookie = call[c].cookie
        /\ k.from = call[c].from /\ k.again = call[c].again
    BY <2>1, CallFields DEF Call, Refreshing
  <2>3. call' = [call EXCEPT ![c] = k]
    BY DEF Rotate
  <2> HIDE DEF k
  <2> QED
    BY <2>2, <2>3 DEF TypeOK
<1>3. /\ NextToken \in Tokens /\ token[NextToken] = "none"
      /\ call[c].cookie \in Tokens \cup {0} /\ 0 \notin Tokens
      /\ call[c].cookie # 0 => call[c].cookie # NextToken
  BY <1>1, NextIsNew, CallFields, Bounds DEF NumberInv
<1>4. \A t \in Tokens : token'[t] = IF t = NextToken THEN "live"
                                    ELSE IF t = call[c].cookie THEN "revoked"
                                    ELSE token[t]
  BY DEF Rotate, TypeOK
<1>5. TypeOK'
  <2>1. token' \in [Tokens -> {"none", "live", "revoked"}]
    BY DEF TypeOK, Rotate
  <2>2. born' \in [Tokens -> 0..MaxNow] /\ iat' \in [Tokens -> 0..MaxNow]
    BY CallFields DEF TypeOK, Rotate
  <2> QED
    BY <1>1, <1>2, <2>1, <2>2 DEF TypeOK
<1>6. CallInv'
  BY <1>1, <1>2, <1>3 DEF CallInv, Carries
<1>7. TokenInv'
  BY <1>1, <1>2, <1>4, TokenCreated
<1>8. cutoff' <= now'
  BY <1>1
<1>9. TurnedAwayForAReason'
  <2>1. now <= now' /\ cutoff <= cutoff'
    BY <1>1 DEF TypeOK
  <2>2. \A t \in Tokens : token[t] # "none" => born'[t] = born[t] /\ iat'[t] = iat[t]
    BY <1>3 DEF Rotate
  <2>3. \A d \in Calls : call[d].got # 0 => call[d].got \in Tokens /\ token[call[d].got] # "none"
    BY CallFields DEF NumberInv
  <2>4. \A d \in Calls : call'[d].pc = "failed" => call'[d] = call[d]
    BY <1>2
  <2> QED
    BY <1>1, <1>5, <2>1, <2>2, <2>3, <2>4, ReasonsStay
<1> QED
  BY <1>5, <1>6, <1>7, <1>8, <1>9

LEMMA IssueStep ==
  ASSUME IInv, NEW c \in Calls, Issue(c)
  PROVE  IInv'
<1> USE DEF IInv, TokenInv, db, redis, client, history
<1>1. /\ call[c].pc = "issue" /\ call[c].got = 0
      /\ UNCHANGED <<active, redis, now, client, history, faults>>
  BY DEF Issue, At, CallInv, Carries
<1>2. /\ call' \in [Calls -> Call]
      /\ \A d \in Calls : d # c => call'[d] = call[d]
      /\ call'[c].got = NextToken /\ call'[c].pc = "deliver"
      /\ call'[c].cookie = call[c].cookie /\ call'[c].from = call[c].from
      /\ call'[c].again = call[c].again
  <2> DEFINE k == [call[c] EXCEPT !.got = NextToken, !.stamp = 0, !.pc = "deliver"]
  <2>1. NextToken \in Tokens /\ 0 \in 0..MaxNow
    BY <1>1, NextIsNew, Bounds
  <2>2. /\ k \in Call /\ k.got = NextToken /\ k.pc = "deliver" /\ k.cookie = call[c].cookie
        /\ k.from = call[c].from /\ k.again = call[c].again
    BY <2>1, CallFields DEF Call, Refreshing
  <2>3. call' = [call EXCEPT ![c] = k]
    BY DEF Issue
  <2> HIDE DEF k
  <2> QED
    BY <2>2, <2>3 DEF TypeOK
<1>3. /\ NextToken \in Tokens /\ token[NextToken] = "none"
      /\ call[c].cookie \in Tokens \cup {0} /\ 0 \notin Tokens
      /\ call[c].cookie # 0 => call[c].cookie # NextToken
  BY <1>1, NextIsNew, CallFields, Bounds DEF NumberInv
<1>4. \A t \in Tokens : token'[t] = IF t = NextToken THEN "live"
                                    ELSE IF t = call[c].cookie THEN "revoked"
                                    ELSE token[t]
  <2>1. call[c].pc = "issue" => call[c].cookie = 0
    BY DEF CallInv, Carries
  <2> QED
    BY <1>1, <1>3, <2>1 DEF Issue, TypeOK
<1>5. TypeOK'
  <2>1. token' \in [Tokens -> {"none", "live", "revoked"}]
    BY DEF TypeOK, Issue
  <2>2. born' \in [Tokens -> 0..MaxNow] /\ iat' \in [Tokens -> 0..MaxNow]
    BY <1>3, CallFields DEF TypeOK, Issue
  <2> QED
    BY <1>1, <1>2, <2>1, <2>2 DEF TypeOK
<1>6. CallInv'
  BY <1>1, <1>2, <1>3 DEF CallInv, Carries
<1>7. TokenInv'
  BY <1>1, <1>2, <1>4, TokenCreated
<1>8. cutoff' <= now'
  BY <1>1
<1>9. TurnedAwayForAReason'
  <2>1. now <= now' /\ cutoff <= cutoff'
    BY <1>1 DEF TypeOK
  <2>2. \A t \in Tokens : token[t] # "none" => born'[t] = born[t] /\ iat'[t] = iat[t]
    BY <1>3 DEF Issue
  <2>3. \A d \in Calls : call[d].got # 0 => call[d].got \in Tokens /\ token[call[d].got] # "none"
    BY CallFields DEF NumberInv
  <2>4. \A d \in Calls : call'[d].pc = "failed" => call'[d] = call[d]
    BY <1>2
  <2> QED
    BY <1>1, <1>5, <2>1, <2>2, <2>3, <2>4, ReasonsStay
<1> QED
  BY <1>5, <1>6, <1>7, <1>8, <1>9

LEMMA SignStep ==
  ASSUME IInv, NEW c \in Calls, Sign(c)
  PROVE  IInv'
<1> USE DEF IInv, TokenInv, db, redis, client, history
<1>1. /\ call[c].pc = "sign" /\ iat' = [iat EXCEPT ![call[c].got] = now]
      /\ UNCHANGED <<token, born, active, redis, now, client, history, faults>>
  BY DEF Sign, At
<1>2. Moved(c, "deliver")
  BY GotoMoves DEF Sign, Pcs, Refreshing
<1>3. TypeOK'
  <2>1. iat \in [Tokens -> 0..MaxNow] /\ now \in 0..MaxNow
    BY DEF TypeOK
  <2>2. iat' \in [Tokens -> 0..MaxNow]
    BY <1>1, <2>1
  <2> QED
    BY <1>1, <1>2, <2>2 DEF Moved, TypeOK
<1>4. CallInv'
  BY <1>1, <1>2 DEF Moved, CallInv, Carries
<1>5. TokenInv'
  <2>1. KeepsItsTokens(c)
    BY <1>1, <1>2 DEF Moved, KeepsItsTokens, Refreshing
  <2> QED
    BY <1>1, <1>2, <2>1, TokensIdle DEF Moved
<1>6. cutoff' <= now'
  BY <1>1
<1>7. TurnedAwayForAReason'
  <2>1. now <= now' /\ cutoff <= cutoff'
    BY <1>1 DEF TypeOK
  <2>2. \A d \in Calls : call'[d].pc = "failed" => call'[d] = call[d]
    BY <1>2 DEF Moved
  <2>3. ASSUME NEW d \in Calls, call[d].pc = "failed", call[d].got # 0
        PROVE  iat'[call[d].got] = iat[call[d].got]
    <3>1. call[d].got # call[c].got /\ call[d].got \in Tokens
      BY <1>1, <2>3, CallFields DEF HomeInv
    <3> QED
      BY <1>1, <3>1
  <2> QED
    BY <1>1, <1>3, <2>1, <2>2, <2>3, ReasonsStay
<1> QED
  BY <1>3, <1>4, <1>5, <1>6, <1>7

LEMMA DeliverStep ==
  ASSUME IInv, NEW c \in Calls, Deliver(c)
  PROVE  IInv'
<1> USE DEF IInv, TokenInv, db, redis, client, history
<1> DEFINE b == call[c].from
<1>1. /\ call[c].pc = "deliver" /\ b \in Browsers /\ call[c].got # 0
      /\ jar' = [jar EXCEPT ![b] = call[c].got]
      /\ access' = [access EXCEPT ![b] = call[c].got]
      /\ astray' = astray \cup ({jar[b]} \ {0, call[c].cookie})
      /\ UNCHANGED <<db, redis, now, ended, racing, faults>>
  BY CallFields DEF Deliver, SetCookie, At, CallInv, Carries
<1>2. /\ call' \in [Calls -> Call]
      /\ \A d \in Calls : d # c => call'[d] = call[d]
      /\ call'[c].got = call[c].got /\ call'[c].cookie = call[c].cookie
      /\ \/ /\ call'[c].pc = "check" /\ call'[c].op = "api"
            /\ call'[c].access = call[c].got /\ call'[c].again = TRUE
         \/ call'[c].pc = "done" /\ call'[c].again = FALSE
  <2> DEFINE k == [call[c] EXCEPT !.access = call[c].got, !.again = TRUE]
  <2>1. /\ k \in Call /\ k.got = call[c].got /\ k.cookie = call[c].cookie
        /\ k.op = call[c].op /\ k.access = call[c].got /\ k.again = TRUE
    BY CallFields DEF Call
  <2>2. call'[c] = On(k, IF call[c].op = "api" THEN "check" ELSE "done")
    BY DEF Deliver, TypeOK
  <2>3. /\ \A d \in Calls : d # c => call'[d] = call[d]
        /\ call' = [d \in Calls |-> call'[d]]
    BY DEF Deliver, TypeOK
  <2>4. {"check", "done"} \subseteq Pcs
    BY DEF Pcs
  <2> HIDE DEF k
  <2>5. CASE call[c].op = "api"
    <3>1. /\ On(k, "check") \in Call /\ On(k, "check").pc = "check"
          /\ On(k, "check").op = k.op /\ On(k, "check").access = k.access
          /\ On(k, "check").again = k.again
          /\ On(k, "check").got = k.got /\ On(k, "check").cookie = k.cookie
      BY <2>1, <2>4, OnGives
    <3>2. call'[c] = On(k, "check")
      BY <2>2, <2>5
    <3>3. call' \in [Calls -> Call]
      BY <2>3, <3>1, <3>2 DEF TypeOK
    <3> QED
      BY <2>1, <2>3, <2>5, <3>1, <3>2, <3>3
  <2>6. CASE call[c].op # "api"
    <3>1. /\ On(k, "done") \in Call /\ On(k, "done").pc = "done"
          /\ On(k, "done").again = FALSE
          /\ On(k, "done").got = k.got /\ On(k, "done").cookie = k.cookie
      BY <2>1, <2>4, OnGives
    <3>2. call'[c] = On(k, "done")
      BY <2>2, <2>6
    <3>3. call' \in [Calls -> Call]
      BY <2>3, <3>1, <3>2 DEF TypeOK
    <3> QED
      BY <2>1, <2>3, <3>1, <3>2, <3>3
  <2> QED
    BY <2>5, <2>6
<1>3. TypeOK'
  <2>1. /\ jar' \in [Browsers -> Tokens \cup {0}] /\ access' \in [Browsers -> Tokens \cup {0}]
        /\ astray' \subseteq Tokens
    BY <1>1, CallFields DEF TypeOK
  <2> QED
    BY <1>1, <1>2, <2>1 DEF TypeOK
<1>4. CallInv'
  BY <1>1, <1>2 DEF CallInv, Carries
<1>5. TokenInv'
  <2>1. \A a \in Browsers : jar'[a] = IF a = b THEN call[c].got ELSE jar[a]
    BY <1>1 DEF TypeOK
  <2> QED
    BY <1>1, <1>2, <2>1, TokenDelivered
<1>6. cutoff' <= now'
  BY <1>1
<1>7. TurnedAwayForAReason'
  <2>1. now <= now' /\ cutoff <= cutoff'
    BY <1>1 DEF TypeOK
  <2>2. \A d \in Calls : call'[d].pc = "failed" => call'[d] = call[d]
    BY <1>2
  <2> QED
    BY <1>1, <1>3, <2>1, <2>2, ReasonsStay
<1> QED
  BY <1>3, <1>4, <1>5, <1>6, <1>7

LEMMA LoseStep ==
  ASSUME IInv, NEW c \in Calls, Lose(c)
  PROVE  IInv'
<1> USE DEF IInv, TokenInv, db, redis, client, history
<1>1. /\ call[c].pc = "deliver"
      /\ astray' = astray \cup ({call[c].cookie, call[c].got} \ {0})
      /\ faults' \in 0..MaxFaults
      /\ UNCHANGED <<db, redis, now, client, ended, racing>>
  <2>1. faults' \in 0..MaxFaults
    BY FaultCounts DEF Lose, TypeOK
  <2> QED
    BY <2>1 DEF Lose, At
<1>2. Moved(c, "done")
  BY GotoMoves DEF Lose, Pcs
<1>3. TypeOK'
  <2>1. astray' \subseteq Tokens
    BY <1>1, CallFields DEF TypeOK
  <2> QED
    BY <1>1, <1>2, <2>1 DEF Moved, TypeOK
<1>4. CallInv'
  BY <1>2 DEF Moved, CallInv, Carries
<1>5. TokenInv'
  <2>1. KeepsItsTokens(c)
    BY <1>1, <1>2 DEF Moved, KeepsItsTokens, Refreshing
  <2>2. JarsEmpty
    BY <1>1 DEF JarsEmpty
  <2>3. {} \in SUBSET Live /\ \A t \in Tokens : token'[t] = IF t \in {} THEN "revoked" ELSE token[t]
    BY <1>1
  <2>4. /\ ended' = ended \cup {} /\ astray \subseteq astray' /\ racing \subseteq racing'
        /\ \A d \in Calls : At(d, "rotate") /\ call[d].cookie \in {} => d \in racing'
    BY <1>1
  <2> QED
    BY <1>2, <2>1, <2>2, <2>3, <2>4, TokensKept DEF Moved
<1>6. cutoff' <= now'
  BY <1>1
<1>7. TurnedAwayForAReason'
  <2>1. now <= now' /\ cutoff <= cutoff'
    BY <1>1 DEF TypeOK
  <2>2. \A d \in Calls : call'[d].pc = "failed" => call'[d] = call[d]
    BY <1>2 DEF Moved
  <2> QED
    BY <1>1, <1>3, <2>1, <2>2, ReasonsStay
<1> QED
  BY <1>3, <1>4, <1>5, <1>6, <1>7

LEMMA VerifyStep ==
  ASSUME IInv, NEW c \in Calls, Verify(c)
  PROVE  IInv'
<1> USE DEF IInv, TokenInv, db, redis, client, history
<1>1. /\ call[c].pc = "verify" /\ call[c].cookie = 0
      /\ UNCHANGED <<db, redis, now, client, history, faults>>
  BY DEF Verify, At, CallInv, Carries
<1>2. PICK p \in {"issue", "failed"} : Moved(c, p)
  <2>1. CASE active
    <3>1. call' = [call EXCEPT ![c] = On([@ EXCEPT !.stamp = now], "issue")]
      BY <2>1 DEF Verify
    <3> QED
      BY <3>1, StampedMoves DEF Pcs
  <2>2. CASE ~active
    <3>1. call' = [call EXCEPT ![c] = On([@ EXCEPT !.stamp = now], "failed")]
      BY <2>2 DEF Verify
    <3> QED
      BY <3>1, StampedMoves DEF Pcs
  <2> QED
    BY <2>1, <2>2
<1>3. TypeOK'
  BY <1>1, <1>2 DEF Moved, TypeOK
<1>4. CallInv'
  BY <1>1, <1>2 DEF Moved, CallInv, Carries
<1>5. TokenInv'
  <2>1. KeepsItsTokens(c)
    BY <1>1, <1>2 DEF Moved, KeepsItsTokens, Refreshing
  <2> QED
    BY <1>1, <1>2, <2>1, TokensIdle DEF Moved
<1>6. cutoff' <= now'
  BY <1>1
<1>7. TurnedAwayForAReason'
  <2>1. now <= now' /\ cutoff <= cutoff'
    BY <1>1 DEF TypeOK
  <2>2. ASSUME NEW d \in Calls, call'[d].pc = "failed"
        PROVE  call'[d] = call[d] \/ ~active' \/ Spent(call[d].cookie)'
    <3>1. CASE d = c
      BY <1>1, <1>2 DEF Moved, Spent
    <3>2. CASE d # c
      BY <1>2, <3>2 DEF Moved
    <3> QED
      BY <3>1, <3>2
  <2> QED
    BY <1>1, <1>3, <2>1, <2>2, ReasonsStay
<1> QED
  BY <1>3, <1>4, <1>5, <1>6, <1>7

LEMMA DenyStep ==
  ASSUME IInv, NEW c \in Calls, Deny(c)
  PROVE  IInv'
<1> USE DEF IInv, TokenInv, db, redis, client, history
<1>1. /\ call[c].pc = "deny"
      /\ denied \subseteq denied' /\ denied' \subseteq Tokens
      /\ cutoff' \in {cutoff, cutoff} /\ cutoff' \in 0..MaxNow
      /\ faults' \in 0..MaxFaults
      /\ UNCHANGED <<db, now, client, history>>
  <2>1. Own(c) \subseteq Tokens
    BY CallFields DEF Own
  <2>2. faults' \in 0..MaxFaults
    BY FaultCounts DEF Deny, Written, TypeOK
  <2>3. cutoff \in 0..MaxNow /\ now \in 0..MaxNow /\ denied \subseteq Tokens
    BY DEF TypeOK
  <2>4. denied' \in {denied, denied \cup Own(c)} /\ cutoff' \in {cutoff, cutoff}
    BY DEF Deny, Written
  <2> QED
    BY <2>1, <2>2, <2>3, <2>4 DEF Deny, At
<1>2. PICK p \in {"clear", "error"} : Moved(c, p)
  <2>1. Goto(c, "clear") \/ Goto(c, "error")
    BY DEF Deny, Written
  <2> QED
    BY <2>1, GotoMoves DEF Pcs
<1>3. TypeOK'
  BY <1>1, <1>2 DEF Moved, TypeOK
<1>4. CallInv'
  BY <1>1, <1>2 DEF Moved, CallInv, Carries
<1>5. TokenInv'
  <2>1. KeepsItsTokens(c)
    BY <1>1, <1>2 DEF Moved, KeepsItsTokens, Refreshing
  <2> QED
    BY <1>1, <1>2, <2>1, TokensIdle DEF Moved
<1>6. cutoff' <= now'
  BY <1>1
<1>7. TurnedAwayForAReason'
  <2>1. now <= now' /\ cutoff <= cutoff'
    BY <1>1 DEF TypeOK
  <2>2. \A d \in Calls : call'[d].pc = "failed" => call'[d] = call[d]
    BY <1>2 DEF Moved
  <2> QED
    BY <1>1, <1>3, <2>1, <2>2, ReasonsStay
<1> QED
  BY <1>3, <1>4, <1>5, <1>6, <1>7

LEMMA CutStep ==
  ASSUME IInv, NEW c \in Calls, Cut(c)
  PROVE  IInv'
<1> USE DEF IInv, TokenInv, db, redis, client, history
<1>1. /\ call[c].pc = "cut"
      /\ denied \subseteq denied' /\ denied' \subseteq Tokens
      /\ cutoff' \in {cutoff, now} /\ cutoff' \in 0..MaxNow
      /\ faults' \in 0..MaxFaults
      /\ UNCHANGED <<db, now, client, history>>
  <2>1. Own(c) \subseteq Tokens
    BY CallFields DEF Own
  <2>2. faults' \in 0..MaxFaults
    BY FaultCounts DEF Cut, Written, TypeOK
  <2>3. cutoff \in 0..MaxNow /\ now \in 0..MaxNow /\ denied \subseteq Tokens
    BY DEF TypeOK
  <2>4. denied' \in {denied, denied \cup Own(c)} /\ cutoff' \in {cutoff, now}
    BY DEF Cut, Written
  <2> QED
    BY <2>1, <2>2, <2>3, <2>4 DEF Cut, At
<1>2. PICK p \in {"clear", "error"} : Moved(c, p)
  <2>1. Goto(c, "clear") \/ Goto(c, "error")
    BY DEF Cut, Written
  <2> QED
    BY <2>1, GotoMoves DEF Pcs
<1>3. TypeOK'
  BY <1>1, <1>2 DEF Moved, TypeOK
<1>4. CallInv'
  BY <1>1, <1>2 DEF Moved, CallInv, Carries
<1>5. TokenInv'
  <2>1. KeepsItsTokens(c)
    BY <1>1, <1>2 DEF Moved, KeepsItsTokens, Refreshing, CallInv, Carries
  <2> QED
    BY <1>1, <1>2, <2>1, TokensIdle DEF Moved
<1>6. cutoff' <= now'
  BY <1>1
<1>7. TurnedAwayForAReason'
  <2>1. now <= now' /\ cutoff <= cutoff'
    BY <1>1 DEF TypeOK
  <2>2. \A d \in Calls : call'[d].pc = "failed" => call'[d] = call[d]
    BY <1>2 DEF Moved
  <2> QED
    BY <1>1, <1>3, <2>1, <2>2, ReasonsStay
<1> QED
  BY <1>3, <1>4, <1>5, <1>6, <1>7

LEMMA ClearStep ==
  ASSUME IInv, NEW c \in Calls, Clear(c)
  PROVE  IInv'
<1> USE DEF IInv, TokenInv, db, redis, client, history
<1>1. /\ call[c].pc \in {"clear", "error"} /\ astray \subseteq astray'
      /\ UNCHANGED <<db, redis, now, ended, racing, faults>>
  BY DEF Clear
<1>2. Moved(c, "done")
  BY GotoMoves DEF Clear, Pcs
<1>3. call[c].from \in Browsers \cup {NoBrowser}
  BY CallFields
<1>4. /\ jar' \in [Browsers -> Tokens \cup {0}] /\ access' \in [Browsers -> Tokens \cup {0}]
      /\ astray' \subseteq Tokens
      /\ \A a \in Browsers :
           \/ jar'[a] = jar[a]
           \/ jar'[a] = 0 /\ (jar[a] = 0 \/ jar[a] = call[c].cookie \/ jar[a] \in astray')
  <2>1. CASE UNCHANGED <<client, astray>>
    BY <2>1 DEF TypeOK
  <2>2. CASE call[c].from \in Browsers /\ access' = [access EXCEPT ![call[c].from] = 0]
    <3>1. CASE UNCHANGED <<jar, astray>>
      BY <2>2, <3>1 DEF TypeOK
    <3>2. CASE /\ jar' = [jar EXCEPT ![call[c].from] = 0]
               /\ astray' = astray \cup ({jar[call[c].from]} \ {0, call[c].cookie})
      BY <2>2, <3>2 DEF TypeOK
    <3> QED
      BY <3>1, <3>2 DEF Clear
  <2> QED
    BY <1>3, <2>1, <2>2 DEF Clear
<1>5. TypeOK'
  BY <1>1, <1>2, <1>4 DEF Moved, TypeOK
<1>6. CallInv'
  BY <1>2 DEF Moved, CallInv, Carries
<1>7. TokenInv'
  <2>1. KeepsItsTokens(c)
    BY <1>1, <1>2 DEF Moved, KeepsItsTokens, Refreshing
  <2>2. JarsEmpty
    <3>1. ASSUME NEW a \in Browsers, jar'[a] # jar[a]
          PROVE  jar'[a] = 0 /\ (jar[a] = 0 \/ jar[a] \in astray' \/ token[jar[a]] = "revoked")
      <4>1. jar'[a] = 0 /\ (jar[a] = 0 \/ jar[a] = call[c].cookie \/ jar[a] \in astray')
        BY <1>4, <3>1
      <4> QED
        BY <1>1, <4>1 DEF RevokedInv
    <3> QED
      BY <3>1 DEF JarsEmpty
  <2>3. {} \in SUBSET Live /\ \A t \in Tokens : token'[t] = IF t \in {} THEN "revoked" ELSE token[t]
    BY <1>1
  <2>4. /\ ended' = ended \cup {} /\ astray \subseteq astray' /\ racing \subseteq racing'
        /\ \A d \in Calls : At(d, "rotate") /\ call[d].cookie \in {} => d \in racing'
    BY <1>1
  <2> QED
    BY <1>2, <2>1, <2>2, <2>3, <2>4, TokensKept DEF Moved
<1>8. cutoff' <= now'
  BY <1>1
<1>9. TurnedAwayForAReason'
  <2>1. now <= now' /\ cutoff <= cutoff'
    BY <1>1 DEF TypeOK
  <2>2. \A d \in Calls : call'[d].pc = "failed" => call'[d] = call[d]
    BY <1>2 DEF Moved
  <2> QED
    BY <1>1, <1>5, <2>1, <2>2, ReasonsStay
<1> QED
  BY <1>5, <1>6, <1>7, <1>8, <1>9

LEMMA DeactivateStep ==
  ASSUME IInv, NEW c \in Calls, Deactivate(c)
  PROVE  IInv'
<1> USE DEF IInv, TokenInv, db, redis, client, history
<1>1. /\ call[c].pc = "new" /\ active' = FALSE
      /\ UNCHANGED <<token, born, iat, redis, now, client, history, faults>>
  BY DEF Deactivate, At
<1>2. Moved(c, "done")
  BY GotoMoves DEF Deactivate, Pcs
<1>3. TypeOK'
  BY <1>1, <1>2 DEF Moved, TypeOK
<1>4. CallInv'
  BY <1>2 DEF Moved, CallInv, Carries
<1>5. TokenInv'
  <2>1. KeepsItsTokens(c)
    BY <1>1, <1>2 DEF Moved, KeepsItsTokens, Refreshing
  <2> QED
    BY <1>1, <1>2, <2>1, TokensIdle DEF Moved
<1>6. cutoff' <= now'
  BY <1>1
<1>7. TurnedAwayForAReason'
  <2>1. now <= now' /\ cutoff <= cutoff'
    BY <1>1 DEF TypeOK
  <2> QED
    BY <1>1, <1>3, <2>1, ReasonsStay
<1> QED
  BY <1>3, <1>4, <1>5, <1>6, <1>7

LEMMA TickStep ==
  ASSUME IInv, Tick
  PROVE  IInv'
<1> USE DEF IInv, TokenInv, db, redis, client, history
<1>1. now < MaxNow /\ now' = now + 1 /\ UNCHANGED <<db, redis, client, call, history, faults>>
  BY DEF Tick
<1>2. now \in Nat /\ now' \in 1..MaxNow /\ now <= now' /\ cutoff \in Nat /\ cutoff' <= now'
  BY <1>1, Bounds DEF TypeOK
<1>3. TypeOK'
  BY <1>1, <1>2 DEF TypeOK
<1>4. CallInv' /\ TokenInv'
  <2>1. Answered' = Answered /\ Created' = Created /\ \A t : Presenting(t)' = Presenting(t)
    BY <1>1 DEF Answered, Created, Presenting
  <2>2. NumberInv' /\ RevokedInv' /\ RaceInv'
    BY <1>1, <2>1 DEF NumberInv, RevokedInv, RaceInv, At
  <2>3. HomeInv'
    BY <1>1 DEF HomeInv, Presenting
  <2>4. LiveTokensAreHeld'
    BY <1>1 DEF LiveTokensAreHeld, Live
  <2>5. ReuseInv'
    BY <1>1 DEF ReuseInv, Presenting, At
  <2> QED
    BY <1>1, <2>2, <2>3, <2>4, <2>5 DEF CallInv
<1>5. TurnedAwayForAReason'
  BY <1>1, <1>2, <1>3, ReasonsStay
<1> QED
  BY <1>2, <1>3, <1>4, <1>5

-----------------------------------------------------------------------------
(* The theorems.                                                           *)

LEMMA InitStep == Init => IInv
<1> SUFFICES ASSUME Init PROVE IInv
  OBVIOUS
<1> USE DEF Init
<1>1. /\ \A t \in Tokens : t \in Browsers <=> t <= Cardinality(Browsers)
      /\ 0 \notin Tokens /\ Browsers \subseteq Tokens
      /\ 0 \in 0..MaxNow /\ 1 \in 0..MaxNow /\ 1 \in 1..MaxNow /\ 0 \in 0..MaxFaults
  <2>1. Browsers = 1..Cardinality(Browsers)
    BY AuthAssumption
  <2> QED
    BY <2>1, Bounds
<1>2. \A c \in Calls : /\ call[c] = NotMade /\ call[c].pc = "new" /\ call[c].cookie = 0
                       /\ call[c].got = 0 /\ call[c].again = FALSE
  BY DEF NotMade
<1>3. TypeOK
  <2>1. call \in [Calls -> Call]
    BY NotMadeIsACall
  <2> QED
    BY <1>1, <2>1 DEF TypeOK
<1>4. CallInv
  BY <1>2 DEF CallInv, Carries
<1>5. NumberInv
  <2>1. Answered = {}
    BY <1>2 DEF Answered
  <2>2. Created = Cardinality(Browsers)
    BY <2>1, FS_EmptySet, Bounds DEF Created
  <2> QED
    BY <1>1, <1>2, <2>2 DEF NumberInv
<1>6. HomeInv /\ RevokedInv /\ RaceInv /\ ReuseInv
  BY <1>2 DEF HomeInv, RevokedInv, RaceInv, ReuseInv, At
<1>7. LiveTokensAreHeld
  BY DEF LiveTokensAreHeld, Live
<1>8. cutoff <= now /\ TurnedAwayForAReason
  BY <1>2 DEF TurnedAwayForAReason, At
<1> QED
  BY <1>3, <1>4, <1>5, <1>6, <1>7, <1>8 DEF IInv, TokenInv

LEMMA StutterStep == IInv /\ UNCHANGED vars => IInv'
<1> SUFFICES ASSUME IInv, UNCHANGED vars PROVE IInv'
  OBVIOUS
<1> USE DEF IInv, TokenInv, vars, db, redis, client, history
<1>1. TypeOK' /\ CallInv' /\ cutoff' <= now'
  BY DEF TypeOK, CallInv
<1>2. Answered' = Answered /\ Created' = Created
  BY DEF Answered, Created
<1>3. NumberInv' /\ RevokedInv' /\ RaceInv'
  BY <1>2 DEF NumberInv, RevokedInv, RaceInv, At
<1>4. HomeInv'
  BY DEF HomeInv, Presenting
<1>5. LiveTokensAreHeld'
  BY DEF LiveTokensAreHeld, Live
<1>6. ReuseInv'
  BY DEF ReuseInv, Presenting, At
<1>7. TurnedAwayForAReason'
  BY DEF TurnedAwayForAReason, At, Spent, Withdrawn, Expired, Lapsed, Revoked
<1> QED
  BY <1>1, <1>3, <1>4, <1>5, <1>6, <1>7

LEMMA NextStep == IInv /\ Next => IInv'
<1> SUFFICES ASSUME IInv, Next PROVE IInv'
  OBVIOUS
<1>1. ASSUME NEW c \in Calls, Make(c) PROVE IInv'
  BY <1>1, LoadStep, RequestStep, DeactivateStep DEF Make
<1>2. ASSUME NEW c \in Calls, Serve(c) PROVE IInv'
  BY <1>2, CheckStep, LookupStep, AlarmStep, RotateStep, SignStep, VerifyStep,
     IssueStep, RevokePresentedStep, DenyStep, SweepStep, CutStep
     DEF Serve
<1>3. ASSUME NEW c \in Calls, Answer(c) PROVE IInv'
  BY <1>3, RefusedStep, DeliverStep, LoseStep, ClearStep DEF Answer
<1> QED
  BY <1>1, <1>2, <1>3, TickStep DEF Next

\* The inductive invariant holds in every reachable state.
THEOREM Invariance == Spec => []IInv
<1>1. IInv /\ [Next]_vars => IInv'
  BY NextStep, StutterStep
<1> QED
  BY InitStep, <1>1, PTL DEF Spec

\* The tokens, the calls and the clock keep their types; in particular NextToken
\* never runs out of numbers.
THEOREM TypeCorrect == Spec => []TypeOK
<1>1. IInv => TypeOK
  BY DEF IInv
<1> QED
  BY <1>1, Invariance, PTL

\* A user is turned away only for a reason: one request at a time, rotation never
\* turns against its own browser (auth.service.ts:91-139, api.ts:64-71).
THEOREM NobodyIsTurnedAwayForNothing == Spec => []TurnedAwayForAReason
<1>1. IInv => TurnedAwayForAReason
  BY DEF IInv
<1> QED
  BY <1>1, Invariance, PTL

\* Rotation leaves no unrevoked token behind that nobody holds.
THEOREM NoTokenIsForgotten == Spec => []LiveTokensAreHeld
<1>1. IInv => LiveTokensAreHeld
  BY DEF IInv, TokenInv
<1> QED
  BY <1>1, Invariance, PTL

\* An ended session has an heir only through a refresh that had read its token
\* before (auth.service.ts:93, :118).
THEOREM HeirsRaced == Spec => []HeirsWereRacing
<1>1. IInv => HeirsWereRacing
  BY DEF IInv, TokenInv, RaceInv, HeirsWereRacing
<1> QED
  BY <1>1, Invariance, PTL
=============================================================================
