---------------------------- MODULE LoginProofs -----------------------------
(***************************************************************************)
(* Proofs about Otp, for any sets of phones and requests, any number of    *)
(* codes and any limit of attempts, and about Accounts, for any finite set *)
(* of users and any numbers of requests and tokens.                        *)
(*                                                                         *)
(* The attempts of a code are kept in its Redis key, which a request reads *)
(* in one step and stores or deletes in another.  For a phone that waits   *)
(* for each answer nobody stores in between; the key can only expire.  So  *)
(* what the request has read is right about the code (ReadRight), even if  *)
(* it is not there any more, and storing it again does no harm.            *)
(*                                                                         *)
(* A login numbers a new partner by counting the rows that it sees.  Rows  *)
(* are never deleted, so the number is at most one more than there are at  *)
(* its commit, and the unique column leaves it no other value (LoginRight).*)
(* The stored refresh token of a client that waits is the one it holds, or *)
(* the one that the app's second transaction is about to hand out          *)
(* (TokenRight).                                                           *)
(***************************************************************************)
EXTENDS Otp, Accounts, FiniteSetTheorems, TLAPS

-----------------------------------------------------------------------------
(* Otp: the inductive invariant *)

\* What is recorded of the codes of a phone, and what its key says.
Recorded(p) ==
    /\ otp[p].code <= sent[p]
    /\ \A c \in Codes :
         /\ c > sent[p] => rights[p][c] = 0 /\ wrongs[p][c] = 0
         /\ rights[p][c] + (IF wrongs[p][c] = MaxAttempts THEN 1 ELSE 0) <= 1
         /\ wrongs[p][c] <= MaxAttempts
         /\ otp[p].code = c => rights[p][c] = 0 /\ wrongs[p][c] = otp[p].attempts

Verifies(w) == w.at \in {"count", "block", "accept"}

\* What a request is about to do with what it has read.
Decided(w) ==
    Verifies(w) =>
        /\ w.read.code \in Codes
        /\ w.at = "count" => w.read.attempts + 1 < MaxAttempts
        /\ w.at = "block" => w.read.attempts + 1 >= MaxAttempts

\* What it has read is right, if its phone waits for the answer.
ReadRight(w) ==
    w.phone \in patient /\ Verifies(w) =>
        /\ w.read.code <= sent[w.phone]
        /\ rights[w.phone][w.read.code] = 0
        /\ wrongs[w.phone][w.read.code] = w.read.attempts
        /\ otp[w.phone] \in {w.read, NoCode}

AloneOnPhone(s) ==
    otpReq[s].phone \in patient =>
        \A t \in Sessions :
            otpReq[t] # Idle /\ otpReq[t].phone = otpReq[s].phone => t = s

RequestsRight ==
    \A s \in Sessions : otpReq[s] # Idle =>
        AloneOnPhone(s) /\ Decided(otpReq[s]) /\ ReadRight(otpReq[s])

KeyRight == \A p \in Phones : otp[p].code = 0 => otp[p] = NoCode

OtpInv ==
    OtpTypeOK /\ KeyRight /\ (\A p \in patient : Recorded(p)) /\ RequestsRight

Read == [code : 0..MaxCodes, attempts : 0..(MaxAttempts - 1)]

OtpRequest ==
    [phone : Phones, at : {"store", "cooldown", "count", "block", "accept"}, read : Read]

-----------------------------------------------------------------------------
(* Otp: the steps *)

\* A request record is not Idle.
LEMMA OtpRequestNotIdle ==
    ASSUME NEW w \in OtpRequest
    PROVE  w # Idle
  BY DEF OtpRequest, Idle

LEMMA ReqType ==
    ASSUME OtpTypeOK, NEW s \in Sessions, otpReq[s] # Idle
    PROVE  otpReq[s] \in OtpRequest
  BY DEF OtpTypeOK, OtpRequest, Read

LEMMA OtpInitHolds == OtpInit => OtpInv
  <1> SUFFICES ASSUME OtpInit PROVE OtpInv
    OBVIOUS
  <1>1. OtpTypeOK
    BY OtpAssumption DEF OtpInit, OtpTypeOK, NoCode, Codes
  <1>2. \A p \in patient : Recorded(p)
    BY OtpAssumption DEF OtpInit, Recorded, NoCode, Codes
  <1>3. RequestsRight /\ KeyRight
    BY DEF OtpInit, RequestsRight, KeyRight
  <1>4. QED
    BY <1>1, <1>2, <1>3 DEF OtpInv

\* A request of one phone leaves alone what is known of the others, and nobody
\* else is under way for a phone that waits.
LEMMA RequestMoves ==
    ASSUME OtpInv, NEW s \in Sessions, NEW p \in Phones,
           otpReq[s] # Idle => otpReq[s].phone = p,
           p \in patient => \A t \in Sessions \ {s} :
                               otpReq[t] # Idle => otpReq[t].phone # p,
           NEW w \in OtpRequest \cup {Idle},
           otpReq' = [otpReq EXCEPT ![s] = w],
           patient' = patient,
           \A q \in Phones \ {p} : /\ otp'[q] = otp[q] /\ sent'[q] = sent[q]
                                   /\ rights'[q] = rights[q] /\ wrongs'[q] = wrongs[q],
           OtpTypeOK', otp'[p].code = 0 => otp'[p] = NoCode,
           p \in patient => Recorded(p)',
           w # Idle => w.phone = p /\ Decided(w) /\ ReadRight(w)'
    PROVE  OtpInv'
  <1>1. ASSUME NEW q \in patient' PROVE Recorded(q)'
    <2>1. CASE q = p
      BY <2>1, <1>1
    <2>2. CASE q # p
      <3>1. q \in Phones /\ Recorded(q)
        BY <1>1 DEF OtpInv, OtpTypeOK
      <3>2. QED
        BY <2>2, <3>1 DEF Recorded
    <2>3. QED
      BY <2>1, <2>2
  <1>2. otpReq \in [Sessions -> OtpRequest \cup {Idle}]
    BY DEF OtpInv, OtpTypeOK, OtpRequest, Read
  <1>3. ASSUME NEW t \in Sessions, otpReq'[t] # Idle
        PROVE  (AloneOnPhone(t) /\ Decided(otpReq[t]) /\ ReadRight(otpReq[t]))'
    <2>1. CASE t = s
      <3>1. otpReq'[t] = w
        BY <2>1, <1>2
      <3>2. AloneOnPhone(t)'
        BY <2>1, <3>1, <1>2, <1>3 DEF AloneOnPhone
      <3>3. Decided(otpReq[t])'
        BY <3>1, <1>3 DEF Decided, Verifies
      <3>4. ReadRight(otpReq[t])'
        BY <3>1, <1>3 DEF ReadRight, Verifies
      <3>5. QED
        BY <3>2, <3>3, <3>4
    <2>2. CASE t # s
      <3>1. otpReq'[t] = otpReq[t] /\ otpReq[t] # Idle /\ otpReq[t] \in OtpRequest
        BY <2>2, <1>2, <1>3
      <3>2. AloneOnPhone(t) /\ Decided(otpReq[t]) /\ ReadRight(otpReq[t])
        BY <3>1 DEF OtpInv, RequestsRight
      <3>3. AloneOnPhone(t)'
        BY <2>2, <3>1, <3>2, <1>2 DEF AloneOnPhone
      <3>4. Decided(otpReq[t])'
        BY <3>1, <3>2 DEF Decided, Verifies
      <3>5. ReadRight(otpReq[t])'
        <4> SUFFICES ASSUME otpReq[t].phone \in patient, Verifies(otpReq[t])
                     PROVE  ReadRight(otpReq[t])'
          BY <3>1 DEF ReadRight, Verifies
        <4>1. otpReq[t].phone \in Phones \ {p}
          BY <2>2, <3>1 DEF OtpRequest
        <4>2. QED
          BY <3>1, <3>2, <4>1 DEF ReadRight
      <3>6. QED
        BY <3>3, <3>4, <3>5
    <2>3. QED
      BY <2>1, <2>2
  <1>4. KeyRight'
    BY DEF OtpInv, KeyRight
  <1>5. QED
    BY <1>1, <1>3, <1>4 DEF OtpInv, RequestsRight

\* A request that begins, or goes on without touching the code.
LEMMA QuietMove ==
    ASSUME OtpInv, NEW s \in Sessions, NEW p \in Phones,
           otpReq[s] # Idle => otpReq[s].phone = p,
           p \in patient => \A t \in Sessions \ {s} :
                               otpReq[t] # Idle => otpReq[t].phone # p,
           NEW w \in OtpRequest \cup {Idle},
           otpReq' = [otpReq EXCEPT ![s] = w],
           UNCHANGED <<otp, sent, history, patient>>,
           cooldown' \in [Phones -> BOOLEAN],
           w # Idle => w.phone = p /\ Decided(w) /\ ReadRight(w)
    PROVE  OtpInv'
  <1>1. OtpTypeOK'
    BY DEF OtpInv, OtpTypeOK, history, OtpRequest, Read
  <1>2. p \in patient => Recorded(p)'
    BY DEF OtpInv, Recorded, history
  <1>3. w # Idle => ReadRight(w)'
    BY DEF ReadRight, history
  <1>4. otp'[p].code = 0 => otp'[p] = NoCode
    BY DEF OtpInv, KeyRight
  <1>5. QED
    BY <1>1, <1>2, <1>3, <1>4, RequestMoves DEF history

LEMMA AskFacts ==
    ASSUME OtpInv, NEW s \in Sessions, NEW p \in Phones, Asks(s, p)
    PROVE  /\ otpReq[s] = Idle
           /\ p \in patient => \A t \in Sessions \ {s} :
                                  otpReq[t] # Idle => otpReq[t].phone # p
  BY DEF Asks, AloneOn

LEMMA UnderWayFacts ==
    ASSUME OtpInv, NEW s \in Sessions, otpReq[s] # Idle
    PROVE  /\ otpReq[s] \in OtpRequest
           /\ otpReq[s].phone \in Phones
           /\ Decided(otpReq[s]) /\ ReadRight(otpReq[s])
           /\ otpReq[s].phone \in patient =>
                /\ Recorded(otpReq[s].phone)
                /\ \A t \in Sessions \ {s} :
                     otpReq[t] # Idle => otpReq[t].phone # otpReq[s].phone
  <1>1. otpReq[s] \in OtpRequest
    BY ReqType DEF OtpInv
  <1>2. otpReq[s].phone \in Phones
    BY <1>1 DEF OtpRequest
  <1>3. QED
    BY <1>1, <1>2 DEF OtpInv, RequestsRight, AloneOnPhone

LEMMA SendKept ==
    ASSUME OtpInv, NEW s \in Sessions, NEW p \in Phones, SendOtp(s, p)
    PROVE  OtpInv'
  <1> DEFINE w == [phone |-> p, at |-> "store", read |-> NoCode]
  <1>1. w \in OtpRequest
    BY OtpAssumption DEF OtpRequest, Read, NoCode
  <1>2. Decided(w) /\ ReadRight(w)
    BY DEF Decided, ReadRight, Verifies
  <1>3. cooldown' \in [Phones -> BOOLEAN]
    BY DEF SendOtp, OtpInv, OtpTypeOK
  <1>4. QED
    BY <1>1, <1>2, <1>3, AskFacts, QuietMove DEF SendOtp

LEMMA VerifyKept ==
    ASSUME OtpInv, NEW s \in Sessions, NEW p \in Phones, NEW answer \in 0..MaxCodes,
           VerifyOtp(s, p, answer)
    PROVE  OtpInv'
  <1> DEFINE w == [phone |-> p, at |-> Verdict(otp[p], answer), read |-> otp[p]]
  <1>1. otp[p] \in Read /\ otp[p] # NoCode
    BY DEF OtpInv, OtpTypeOK, Read, VerifyOtp
  <1>2. /\ Verdict(otp[p], answer) \in {"count", "block", "accept"}
        /\ Verdict(otp[p], answer) = "count" => otp[p].attempts + 1 < MaxAttempts
        /\ Verdict(otp[p], answer) = "block" => otp[p].attempts + 1 >= MaxAttempts
    <2>1. CASE answer = otp[p].code
      BY <2>1, <1>1 DEF Verdict
    <2>2. CASE answer # otp[p].code /\ otp[p].attempts + 1 < MaxAttempts
      BY <2>2, <1>1 DEF Verdict
    <2>3. CASE answer # otp[p].code /\ otp[p].attempts + 1 >= MaxAttempts
      BY <2>3, <1>1, OtpAssumption DEF Verdict, Read
    <2>4. QED
      BY <2>1, <2>2, <2>3, <1>1, OtpAssumption DEF Read
  <1>3. w \in OtpRequest
    BY <1>1, <1>2 DEF OtpRequest
  <1>4. otp[p].code \in Codes
    BY <1>1, OtpAssumption DEF Read, Codes, OtpInv, KeyRight
  <1>5. Decided(w)
    BY <1>2, <1>4 DEF Decided
  <1>6. ReadRight(w)
    BY <1>4 DEF ReadRight, OtpInv, Recorded
  <1>7. cooldown' \in [Phones -> BOOLEAN]
    BY DEF VerifyOtp, OtpInv, OtpTypeOK
  <1>8. QED
    BY <1>3, <1>5, <1>6, <1>7, AskFacts, QuietMove DEF VerifyOtp

LEMMA CooldownKept ==
    ASSUME OtpInv, NEW s \in Sessions, StoreCooldown(s)
    PROVE  OtpInv'
  <1>1. cooldown' \in [Phones -> BOOLEAN]
    BY UnderWayFacts DEF StoreCooldown, OtpInv, OtpTypeOK
  <1>2. QED
    BY <1>1, UnderWayFacts, QuietMove DEF StoreCooldown, Ends

LEMMA OtpFailsKept ==
    ASSUME OtpInv, NEW s \in Sessions, OtpFails(s)
    PROVE  OtpInv'
  <1>1. cooldown' \in [Phones -> BOOLEAN]
    BY DEF OtpFails, OtpInv, OtpTypeOK
  <1>2. QED
    BY <1>1, UnderWayFacts, QuietMove DEF OtpFails, Ends

LEMMA StoreKept ==
    ASSUME OtpInv, NEW s \in Sessions, StoreOtp(s)
    PROVE  OtpInv'
  <1>1. otpReq[s] # Idle /\ otpReq[s] \in OtpRequest
    BY UnderWayFacts DEF StoreOtp
  <1>2. PICK p \in Phones, w \in OtpRequest :
           /\ p = otpReq[s].phone /\ w = [otpReq[s] EXCEPT !.at = "cooldown"]
    BY <1>1 DEF OtpRequest
  <1>3. w.phone = p /\ w.at = "cooldown"
    BY <1>1, <1>2 DEF OtpRequest
  <1>4. PICK n \in 1..MaxCodes : n = sent[p] + 1
    BY <1>2, OtpAssumption DEF StoreOtp, OtpInv, OtpTypeOK
  <1>5. /\ otp' = [otp EXCEPT ![p] = [code |-> n, attempts |-> 0]]
        /\ sent' = [sent EXCEPT ![p] = n]
        /\ rights' = rights /\ wrongs' = wrongs
        /\ patient' = patient /\ cooldown' = cooldown
        /\ otpReq' = [otpReq EXCEPT ![s] = w]
    BY <1>2, <1>4 DEF StoreOtp, Goes, history
  <1>6. /\ otp'[p] = [code |-> n, attempts |-> 0] /\ sent'[p] = n
        /\ \A q \in Phones \ {p} : otp'[q] = otp[q] /\ sent'[q] = sent[q]
    BY <1>5 DEF OtpInv, OtpTypeOK
  <1>7. OtpTypeOK'
    BY <1>5, OtpAssumption DEF OtpInv, OtpTypeOK, OtpRequest, Read
  <1>8. p \in patient => Recorded(p)'
    <2> SUFFICES ASSUME p \in patient PROVE Recorded(p)'
      OBVIOUS
    <2>1. Recorded(p) /\ sent[p] \in 0..MaxCodes
      BY DEF OtpInv, OtpTypeOK
    <2>2. ASSUME NEW c \in Codes
          PROVE  /\ c > n => rights[p][c] = 0 /\ wrongs[p][c] = 0
                 /\ n = c => rights[p][c] = 0 /\ wrongs[p][c] = 0
      BY <2>1, <1>4, OtpAssumption DEF Recorded, Codes
    <2>3. QED
      BY <1>5, <1>6, <2>1, <2>2, OtpAssumption DEF Recorded, Codes
  <1>9. Decided(w) /\ ReadRight(w)'
    BY <1>3 DEF Decided, ReadRight, Verifies
  <1>10. p \in patient => \A t \in Sessions \ {s} :
                              otpReq[t] # Idle => otpReq[t].phone # p
    BY <1>1, <1>2, UnderWayFacts
  <1>11. otp'[p].code = 0 => otp'[p] = NoCode
    BY <1>6
  <1>12. QED
    BY <1>2, <1>3, <1>5, <1>6, <1>7, <1>8, <1>9, <1>10, <1>11, RequestMoves

\* The record of the code c of phone p alone, as in Recorded.
CodeRecorded(p, c) ==
    /\ rights[p][c] + (IF wrongs[p][c] = MaxAttempts THEN 1 ELSE 0) <= 1
    /\ wrongs[p][c] <= MaxAttempts
    /\ otp[p].code = c => rights[p][c] = 0 /\ wrongs[p][c] = otp[p].attempts

\* A step touches the record of the code c of phone p only, and keeps its key
\* or deletes it.
OnlyCode(p, c) ==
    /\ otp'[p] = NoCode \/ otp'[p].code = c
    /\ \A q \in Phones \ {p} : /\ otp'[q] = otp[q] /\ rights'[q] = rights[q]
                             /\ wrongs'[q] = wrongs[q]
    /\ \A d \in Codes \ {c} : /\ rights'[p][d] = rights[p][d]
                            /\ wrongs'[p][d] = wrongs[p][d]

\* An answer to the code c of phone p is recorded, and the key stored again
\* or deleted.
LEMMA AnswerKept ==
    ASSUME OtpInv, NEW s \in Sessions, otpReq[s] # Idle,
           NEW p \in Phones, otpReq[s].phone = p,
           NEW c \in Codes, p \in patient => c <= sent[p],
           OtpTypeOK',
           OnlyCode(p, c), p \in patient => CodeRecorded(p, c)',
           otpReq' = [otpReq EXCEPT ![s] = Idle],
           sent' = sent, patient' = patient
    PROVE  OtpInv'
  <1>1. otp'[p].code = 0 => otp'[p] = NoCode
    BY OtpAssumption DEF Codes, OnlyCode
  <1>2. p \in patient => Recorded(p)'
    <2> SUFFICES ASSUME p \in patient PROVE Recorded(p)'
      OBVIOUS
    <2>1. Recorded(p) /\ sent[p] \in 0..MaxCodes /\ c <= sent[p]
      BY DEF OtpInv, OtpTypeOK
    <2>2. otp'[p].code <= sent[p]
      BY <2>1 DEF NoCode, OnlyCode
    <2>3. ASSUME NEW d \in Codes
          PROVE  /\ d > sent[p] => rights'[p][d] = 0 /\ wrongs'[p][d] = 0
                 /\ rights'[p][d] + (IF wrongs'[p][d] = MaxAttempts THEN 1 ELSE 0) <= 1
                 /\ wrongs'[p][d] <= MaxAttempts
                 /\ otp'[p].code = d =>
                        rights'[p][d] = 0 /\ wrongs'[p][d] = otp'[p].attempts
      <3>1. CASE d = c
        BY <2>1, <3>1, OtpAssumption DEF Codes, CodeRecorded
      <3>2. CASE d # c
        <4>1. otp'[p].code # d
          BY <3>2, OtpAssumption DEF Codes, NoCode, OnlyCode
        <4>2. rights'[p][d] = rights[p][d] /\ wrongs'[p][d] = wrongs[p][d]
          BY <3>2 DEF OnlyCode
        <4>3. QED
          BY <2>1, <4>1, <4>2 DEF Recorded
      <3>3. QED
        BY <3>1, <3>2
    <2>4. QED
      BY <2>2, <2>3 DEF Recorded
  <1>3. p \in patient => \A t \in Sessions \ {s} :
                             otpReq[t] # Idle => otpReq[t].phone # p
    BY UnderWayFacts
  <1>4. Idle \in OtpRequest \cup {Idle}
    OBVIOUS
  <1>5. QED
    BY <1>1, <1>2, <1>3, <1>4, RequestMoves DEF OnlyCode

\* What a request that ends with an answer knows of the code.
LEMMA AnswerFacts ==
    ASSUME OtpInv, NEW s \in Sessions, otpReq[s] # Idle, Verifies(otpReq[s])
    PROVE  LET p == otpReq[s].phone
               read == otpReq[s].read
           IN  /\ p \in Phones /\ read \in Read /\ read.code \in Codes
               /\ rights[p] \in [Codes -> Nat] /\ wrongs[p] \in [Codes -> Nat]
               /\ otpReq[s].at = "count" => read.attempts + 1 < MaxAttempts
               /\ otpReq[s].at = "block" => read.attempts + 1 = MaxAttempts
               /\ p \in patient =>
                    /\ read.code <= sent[p]
                    /\ rights[p][read.code] = 0
                    /\ wrongs[p][read.code] = read.attempts
  <1>1. /\ otpReq[s] \in OtpRequest /\ Decided(otpReq[s]) /\ ReadRight(otpReq[s])
        /\ otpReq[s].phone \in Phones
    BY UnderWayFacts
  <1>2. otpReq[s].read \in Read
    BY <1>1 DEF OtpRequest
  <1>3. QED
    BY <1>1, <1>2, OtpAssumption DEF Decided, ReadRight, Read, OtpInv, OtpTypeOK

LEMMA CountKept ==
    ASSUME OtpInv, NEW s \in Sessions, CountAttempt(s)
    PROVE  OtpInv'
  <1>1. otpReq[s] # Idle /\ otpReq[s].at = "count" /\ Verifies(otpReq[s])
    BY DEF CountAttempt, Verifies
  <1>2. PICK p \in Phones, read \in Read, c \in Codes :
           p = otpReq[s].phone /\ read = otpReq[s].read /\ c = read.code
    BY <1>1, AnswerFacts
  <1>3. /\ p \in patient => /\ c <= sent[p] /\ rights[p][c] = 0
                            /\ wrongs[p][c] = read.attempts
        /\ read.attempts \in 0..(MaxAttempts - 1)
        /\ read.attempts + 1 < MaxAttempts
    BY <1>1, <1>2, AnswerFacts DEF Read
  <1>4. PICK key \in Read : /\ key = [read EXCEPT !.attempts = @ + 1]
                            /\ key.code = c /\ key.attempts = read.attempts + 1
    <2>1. read.attempts + 1 \in 0..(MaxAttempts - 1)
      BY <1>3, OtpAssumption DEF Read
    <2>2. [code |-> c, attempts |-> read.attempts + 1] \in Read
      BY <1>2, <2>1 DEF Read
    <2>3. [read EXCEPT !.attempts = @ + 1] = [code |-> c, attempts |-> read.attempts + 1]
      BY <1>2 DEF Read
    <2>4. QED
      BY <2>2, <2>3
  <1>5. /\ otp' = [otp EXCEPT ![p] = key]
        /\ wrongs' = [wrongs EXCEPT ![p][c] = @ + 1]
        /\ rights' = rights
        /\ otpReq' = [otpReq EXCEPT ![s] = Idle]
        /\ cooldown' = cooldown /\ sent' = sent /\ patient' = patient
    BY <1>2, <1>4 DEF CountAttempt, Ends
  <1>6. /\ otp \in [Phones -> Read]
        /\ rights \in [Phones -> [Codes -> Nat]]
        /\ wrongs \in [Phones -> [Codes -> Nat]]
        /\ otpReq \in [Sessions -> OtpRequest \cup {Idle}]
    BY DEF OtpInv, OtpTypeOK, OtpRequest, Read
  <1>7. /\ wrongs' \in [Phones -> [Codes -> Nat]]
        /\ wrongs'[p][c] = wrongs[p][c] + 1
        /\ \A d \in Codes \ {c} : wrongs'[p][d] = wrongs[p][d]
        /\ \A q \in Phones \ {p} : wrongs'[q] = wrongs[q]
    BY <1>5, <1>6
  <1>8. /\ otp' \in [Phones -> Read] /\ otp'[p] = key
        /\ \A q \in Phones \ {p} : otp'[q] = otp[q]
        /\ otpReq' \in [Sessions -> OtpRequest \cup {Idle}]
    BY <1>4, <1>5, <1>6
  <1>9. OtpTypeOK'
    BY <1>5, <1>6, <1>7, <1>8 DEF OtpInv, OtpTypeOK, OtpRequest, Read
  <1>10. p \in patient => CodeRecorded(p, c)'
    BY <1>3, <1>4, <1>5, <1>7, <1>8, OtpAssumption DEF CodeRecorded
  <1>11. OnlyCode(p, c)
    BY <1>4, <1>5, <1>7, <1>8 DEF OnlyCode
  <1>12. QED
    BY <1>1, <1>2, <1>3, <1>5, <1>9, <1>10, <1>11, AnswerKept

LEMMA BlockKept ==
    ASSUME OtpInv, NEW s \in Sessions, BlockOtp(s)
    PROVE  OtpInv'
  <1>1. otpReq[s] # Idle /\ otpReq[s].at = "block" /\ Verifies(otpReq[s])
    BY DEF BlockOtp, Verifies
  <1>2. PICK p \in Phones, read \in Read, c \in Codes :
           p = otpReq[s].phone /\ read = otpReq[s].read /\ c = read.code
    BY <1>1, AnswerFacts
  <1>3. /\ p \in patient => /\ c <= sent[p] /\ rights[p][c] = 0
                            /\ wrongs[p][c] = read.attempts
        /\ read.attempts \in 0..(MaxAttempts - 1)
        /\ read.attempts + 1 = MaxAttempts
    BY <1>1, <1>2, AnswerFacts DEF Read
  <1>4. NoCode \in Read /\ NoCode.code # c
    BY <1>2, OtpAssumption DEF NoCode, Read, Codes
  <1>5. /\ otp' = [otp EXCEPT ![p] = NoCode]
        /\ wrongs' = [wrongs EXCEPT ![p][c] = @ + 1]
        /\ rights' = rights
        /\ otpReq' = [otpReq EXCEPT ![s] = Idle]
        /\ cooldown' = cooldown /\ sent' = sent /\ patient' = patient
    BY <1>2 DEF BlockOtp, Ends
  <1>6. /\ otp \in [Phones -> Read]
        /\ rights \in [Phones -> [Codes -> Nat]]
        /\ wrongs \in [Phones -> [Codes -> Nat]]
        /\ otpReq \in [Sessions -> OtpRequest \cup {Idle}]
    BY DEF OtpInv, OtpTypeOK, OtpRequest, Read
  <1>7. /\ wrongs' \in [Phones -> [Codes -> Nat]]
        /\ wrongs'[p][c] = wrongs[p][c] + 1
        /\ \A d \in Codes \ {c} : wrongs'[p][d] = wrongs[p][d]
        /\ \A q \in Phones \ {p} : wrongs'[q] = wrongs[q]
    BY <1>5, <1>6
  <1>8. /\ otp' \in [Phones -> Read] /\ otp'[p] = NoCode
        /\ \A q \in Phones \ {p} : otp'[q] = otp[q]
        /\ otpReq' \in [Sessions -> OtpRequest \cup {Idle}]
    BY <1>4, <1>5, <1>6
  <1>9. OtpTypeOK'
    BY <1>5, <1>6, <1>7, <1>8 DEF OtpInv, OtpTypeOK, OtpRequest, Read
  <1>10. p \in patient => CodeRecorded(p, c)'
    BY <1>3, <1>4, <1>5, <1>7, <1>8, OtpAssumption DEF CodeRecorded
  <1>11. OnlyCode(p, c)
    BY <1>4, <1>5, <1>7, <1>8 DEF OnlyCode
  <1>12. QED
    BY <1>1, <1>2, <1>3, <1>5, <1>9, <1>10, <1>11, AnswerKept

LEMMA AcceptKept ==
    ASSUME OtpInv, NEW s \in Sessions, AcceptOtp(s)
    PROVE  OtpInv'
  <1>1. otpReq[s] # Idle /\ otpReq[s].at = "accept" /\ Verifies(otpReq[s])
    BY DEF AcceptOtp, Verifies
  <1>2. PICK p \in Phones, read \in Read, c \in Codes :
           p = otpReq[s].phone /\ read = otpReq[s].read /\ c = read.code
    BY <1>1, AnswerFacts
  <1>3. /\ p \in patient => /\ c <= sent[p] /\ rights[p][c] = 0
                            /\ wrongs[p][c] = read.attempts
        /\ read.attempts \in 0..(MaxAttempts - 1)
    BY <1>1, <1>2, AnswerFacts DEF Read
  <1>4. NoCode \in Read /\ NoCode.code # c
    BY <1>2, OtpAssumption DEF NoCode, Read, Codes
  <1>5. /\ otp' = [otp EXCEPT ![p] = NoCode]
        /\ rights' = [rights EXCEPT ![p][c] = @ + 1]
        /\ wrongs' = wrongs
        /\ otpReq' = [otpReq EXCEPT ![s] = Idle]
        /\ cooldown' = cooldown /\ sent' = sent /\ patient' = patient
    BY <1>2 DEF AcceptOtp, Ends
  <1>6. /\ otp \in [Phones -> Read]
        /\ rights \in [Phones -> [Codes -> Nat]]
        /\ wrongs \in [Phones -> [Codes -> Nat]]
        /\ otpReq \in [Sessions -> OtpRequest \cup {Idle}]
    BY DEF OtpInv, OtpTypeOK, OtpRequest, Read
  <1>7. /\ rights' \in [Phones -> [Codes -> Nat]]
        /\ rights'[p][c] = rights[p][c] + 1
        /\ \A d \in Codes \ {c} : rights'[p][d] = rights[p][d]
        /\ \A q \in Phones \ {p} : rights'[q] = rights[q]
    BY <1>5, <1>6
  <1>8. /\ otp' \in [Phones -> Read] /\ otp'[p] = NoCode
        /\ \A q \in Phones \ {p} : otp'[q] = otp[q]
        /\ otpReq' \in [Sessions -> OtpRequest \cup {Idle}]
    BY <1>4, <1>5, <1>6
  <1>9. OtpTypeOK'
    BY <1>5, <1>6, <1>7, <1>8 DEF OtpInv, OtpTypeOK, OtpRequest, Read
  <1>10. p \in patient => CodeRecorded(p, c)'
    BY <1>3, <1>4, <1>5, <1>7, <1>8, OtpAssumption DEF CodeRecorded
  <1>11. OnlyCode(p, c)
    BY <1>4, <1>5, <1>7, <1>8 DEF OnlyCode
  <1>12. QED
    BY <1>1, <1>2, <1>3, <1>5, <1>9, <1>10, <1>11, AnswerKept

\* A key expires: whatever was read of it stays right.
LEMMA ExpiryKept ==
    ASSUME OtpInv, NEW p \in Phones, OtpExpires(p) \/ CooldownExpires(p)
    PROVE  OtpInv'
  <1>1. /\ sent' = sent /\ rights' = rights /\ wrongs' = wrongs
        /\ otpReq' = otpReq /\ patient' = patient
        /\ cooldown' \in [Phones -> BOOLEAN]
        /\ otp' \in [Phones -> Read]
        /\ \A q \in Phones : otp'[q] \in {otp[q], NoCode}
    <2>1. NoCode \in Read
      BY OtpAssumption DEF Read, NoCode
    <2>2. otp \in [Phones -> Read] /\ cooldown \in [Phones -> BOOLEAN]
      BY DEF OtpInv, OtpTypeOK, Read
    <2>3. CASE OtpExpires(p)
      BY <2>1, <2>2, <2>3 DEF OtpExpires, history
    <2>4. CASE CooldownExpires(p)
      BY <2>2, <2>4 DEF CooldownExpires, history
    <2>5. QED
      BY <2>3, <2>4
  <1>2. OtpTypeOK'
    BY <1>1 DEF OtpInv, OtpTypeOK, Read
  <1>3. KeyRight'
    BY <1>1 DEF OtpInv, KeyRight
  <1>4. ASSUME NEW q \in patient' PROVE Recorded(q)'
    <2>1. q \in Phones /\ Recorded(q) /\ sent[q] \in 0..MaxCodes
      BY <1>1 DEF OtpInv, OtpTypeOK
    <2>2. CASE otp'[q] = otp[q]
      BY <1>1, <2>1, <2>2 DEF Recorded
    <2>3. CASE otp'[q] = NoCode
      BY <1>1, <2>1, <2>3, OtpAssumption DEF Recorded, NoCode, Codes
    <2>4. QED
      BY <1>1, <2>1, <2>2, <2>3
  <1>5. ASSUME NEW s \in Sessions, otpReq[s] # Idle
        PROVE  (AloneOnPhone(s) /\ Decided(otpReq[s]) /\ ReadRight(otpReq[s]))'
    <2>1. /\ AloneOnPhone(s) /\ Decided(otpReq[s]) /\ ReadRight(otpReq[s])
          /\ otpReq[s].phone \in Phones
      BY <1>5, UnderWayFacts DEF OtpInv, RequestsRight
    <2>2. AloneOnPhone(s)' /\ Decided(otpReq[s])'
      BY <1>1, <2>1 DEF AloneOnPhone, Decided, Verifies
    <2>3. ReadRight(otpReq[s])'
      BY <1>1, <2>1 DEF ReadRight, Verifies
    <2>4. QED
      BY <2>2, <2>3
  <1>6. QED
    BY <1>1, <1>2, <1>3, <1>4, <1>5 DEF OtpInv, RequestsRight

LEMMA OtpNextKept ==
    ASSUME OtpInv, [OtpNext]_otpVars
    PROVE  OtpInv'
  <1>1. CASE UNCHANGED otpVars
    BY <1>1 DEF otpVars, history, OtpInv, OtpTypeOK, KeyRight, Recorded, RequestsRight,
                AloneOnPhone, Decided, ReadRight, Verifies
  <1>2. CASE OtpNext
    <2>1. \/ \E s \in Sessions, p \in Phones : SendOtp(s, p)
          \/ \E s \in Sessions, p \in Phones, answer \in 0..MaxCodes :
               VerifyOtp(s, p, answer)
          \/ \E s \in Sessions :
               \/ StoreOtp(s) \/ StoreCooldown(s)
               \/ CountAttempt(s) \/ BlockOtp(s) \/ AcceptOtp(s) \/ OtpFails(s)
          \/ \E p \in Phones : OtpExpires(p) \/ CooldownExpires(p)
      BY <1>2 DEF OtpNext
    <2>2. QED
      BY <2>1, SendKept, VerifyKept, StoreKept, CooldownKept, CountKept, BlockKept,
         AcceptKept, OtpFailsKept, ExpiryKept
  <1>3. QED
    BY <1>1, <1>2

-----------------------------------------------------------------------------
(* Theorems *)

\* Every reachable state is well typed; in particular no key ever counts up to
\* the limit of attempts, whatever overlaps, which is why verify_otp's first
\* test of the limit (otp.py:74-81) decides nothing.
THEOREM OtpTypeCorrect == OtpSpec => []OtpTypeOK
  <1>1. OtpInv => OtpTypeOK
    BY DEF OtpInv
  <1>2. QED
    BY <1>1, OtpInitHolds, OtpNextKept, PTL DEF OtpSpec

\* As long as a phone waits for each answer, a code logs in at most once, and
\* at most MaxAttempts wrong answers are given to it, none of them after a right
\* one (otp.py:59-122), even if requests fail halfway and keys expire.
THEOREM CodeSpentOnce == OtpSpec => []CodeIsSpent
  <1>1. OtpInv => CodeIsSpent
    BY DEF OtpInv, Recorded, CodeIsSpent
  <1>2. QED
    BY <1>1, OtpInitHolds, OtpNextKept, PTL DEF OtpSpec

-----------------------------------------------------------------------------
(* Accounts: the inductive invariant of the partners' rows *)

\* What a login is about to write, by what it has loaded and counted.  The
\* partners can only have become more since.
LoginRight(w) ==
    /\ w.at = "commit" =>
         /\ w.feId <= Cardinality(Partners) + 1
         /\ w.seen = "DELIVERY_PARTNER" => w.user \in Partners
         /\ w.role = "DELIVERY_PARTNER" =>
               w.seen = "DELIVERY_PARTNER" \/ w.feId # 0
    /\ w.at \in {"commit", "store", "role"} =>
         (w.wants = "DELIVERY_PARTNER" => w.role = "DELIVERY_PARTNER")

RegisterInv ==
    /\ AccountsTypeOK
    /\ PartnersRegistered
    /\ \A s \in Sessions : authReq[s] # Idle => LoginRight(authReq[s])

-----------------------------------------------------------------------------
(* Accounts: the steps *)

LEMMA AuthRequestNotIdle ==
    ASSUME NEW w \in AuthRequest
    PROVE  w # Idle
  BY DEF AuthRequest, Idle

LEMMA PartnersFinite ==
    ASSUME AccountsTypeOK
    PROVE  /\ IsFiniteSet(Partners) /\ Cardinality(Partners) \in Nat
           /\ Cardinality(Users) \in Nat
           /\ Cardinality(Partners) <= Cardinality(Users)
  <1>1. Partners \in SUBSET Users
    BY DEF Partners
  <1>2. IsFiniteSet(Users)
    BY AccountsAssumption
  <1>3. IsFiniteSet(Partners) /\ Cardinality(Partners) <= Cardinality(Users)
    BY <1>1, <1>2, FS_Subset
  <1>4. QED
    BY <1>2, <1>3, FS_CardinalityType

\* A request that goes on keeps the invariant if what it is about to write is
\* right and the partners stay partners.
LEMMA AuthMoves ==
    ASSUME RegisterInv, NEW s \in Sessions, NEW w \in AuthRequest \cup {Idle},
           authReq' = [authReq EXCEPT ![s] = w],
           AccountsTypeOK', PartnersRegistered',
           Partners \subseteq Partners',
           w # Idle => LoginRight(w)'
    PROVE  RegisterInv'
  <1>1. AccountsTypeOK
    BY DEF RegisterInv
  <1>2. Cardinality(Partners) <= Cardinality(Partners')
    <2>1. IsFiniteSet(Partners')
      <3>1. Partners' \in SUBSET Users
        BY DEF Partners
      <3>2. QED
        BY <3>1, AccountsAssumption, FS_Subset
    <2>2. QED
      BY <2>1, FS_Subset
  <1>3. Cardinality(Partners) \in Nat /\ Cardinality(Partners') \in Nat
    <2>1. IsFiniteSet(Partners) /\ IsFiniteSet(Partners')
      <3>1. Partners \in SUBSET Users /\ Partners' \in SUBSET Users
        BY DEF Partners
      <3>2. QED
        BY <3>1, AccountsAssumption, FS_Subset
    <2>2. QED
      BY <2>1, FS_CardinalityType
  <1>4. ASSUME NEW t \in Sessions, authReq'[t] # Idle
        PROVE  LoginRight(authReq[t])'
    <2>1. CASE t = s
      <3>1. authReq'[t] = w
        BY <2>1, <1>1 DEF AccountsTypeOK
      <3>2. QED
        BY <1>4, <3>1 DEF LoginRight
    <2>2. CASE t # s
      <3>1. authReq'[t] = authReq[t]
        BY <2>2, <1>1 DEF AccountsTypeOK
      <3>2. LoginRight(authReq[t]) /\ authReq[t] \in AuthRequest
        BY <1>1, <1>4, <3>1 DEF RegisterInv, AccountsTypeOK
      <3>3. authReq[t].feId \in Nat
        BY <1>1, <3>2, PartnersFinite DEF AuthRequest
      <3>4. QED
        BY <1>2, <1>3, <3>1, <3>2, <3>3 DEF LoginRight
    <2>3. QED
      BY <2>1, <2>2
  <1>5. QED
    BY <1>4 DEF RegisterInv

\* If the rows of users and partners stay, the partners stay registered.
LEMMA RowsStay ==
    ASSUME RegisterInv, UNCHANGED <<role, feId>>
    PROVE  Partners' = Partners /\ PartnersRegistered'
  <1>1. Partners' = Partners
    BY DEF Partners
  <1>2. QED
    BY <1>1 DEF RegisterInv, PartnersRegistered

\* The request of a session, if there is one.
LEMMA AuthBusy ==
    ASSUME RegisterInv, NEW s \in Sessions, authReq[s] # Idle
    PROVE  authReq[s] \in AuthRequest /\ LoginRight(authReq[s])
  BY DEF RegisterInv, AccountsTypeOK

LEMMA LoginStep ==
    ASSUME RegisterInv, NEW s \in Sessions, NEW u \in Users,
           NEW wants \in Roles, NEW app \in BOOLEAN, Login(s, u, wants, app)
    PROVE  RegisterInv'
  <1>w. PICK w : w = [user |-> u, at |-> "commit", seen |-> role[u],
              role |-> IF wants = "CUSTOMER"
                       THEN IF role[u] = Absent THEN "CUSTOMER" ELSE role[u]
                       ELSE wants,
              feId |-> IF /\ wants = "DELIVERY_PARTNER"
                          /\ role[u] # "DELIVERY_PARTNER"
                       THEN NextFeId ELSE 0,
              app |-> app, wants |-> wants, token |-> 0]
    OBVIOUS
  <1>1. /\ authReq' = [authReq EXCEPT ![s] = w]
        /\ UNCHANGED <<role, feId, refresh, issued, held, broken, single>>
    BY <1>w DEF Login
  <1>2. AccountsTypeOK /\ role[u] \in Known /\ PartnersRegistered
    BY DEF RegisterInv, AccountsTypeOK
  <1>3. NextFeId \in 1..(Cardinality(Users) + 1)
    BY <1>2, PartnersFinite DEF NextFeId
  <1>4. w \in AuthRequest
    <2>1. w.role \in Roles
      BY <1>w, <1>2 DEF Known, Roles, Absent
    <2>2. w.feId \in 0..(Cardinality(Users) + 1)
      BY <1>w, <1>2, <1>3, PartnersFinite
    <2>3. QED
      BY <1>w, <1>2, <2>1, <2>2 DEF AuthRequest
  <1>5. Partners' = Partners /\ PartnersRegistered'
    BY <1>1, RowsStay
  <1>6. AccountsTypeOK'
    BY <1>1, <1>2, <1>4 DEF AccountsTypeOK
  <1>7. LoginRight(w)
    <2>1. w.feId <= Cardinality(Partners) + 1
      BY <1>w, <1>2, PartnersFinite DEF NextFeId
    <2>2. w.seen = "DELIVERY_PARTNER" => w.user \in Partners
      BY <1>w, <1>2 DEF PartnersRegistered
    <2>3. w.role = "DELIVERY_PARTNER" =>
              w.seen = "DELIVERY_PARTNER" \/ w.feId # 0
      BY <1>w, <1>2, PartnersFinite DEF NextFeId, Absent
    <2>4. w.wants = "DELIVERY_PARTNER" => w.role = "DELIVERY_PARTNER"
      BY <1>w
    <2>5. QED
      BY <2>1, <2>2, <2>3, <2>4 DEF LoginRight
  <1>8. LoginRight(w)'
    BY <1>5, <1>7 DEF LoginRight
  <1>9. QED
    BY <1>1, <1>4, <1>5, <1>6, <1>8, AuthMoves

\* A login's commit.  Its number is at most one more than the partners there
\* are, and nobody has it: it is the next.
LEMMA CommitLoginStep ==
    ASSUME RegisterInv, NEW s \in Sessions, CommitLogin(s)
    PROVE  RegisterInv'
  <1>w. PICK w : w = authReq[s]
    OBVIOUS
  <1>u. PICK u : u = w.user
    OBVIOUS
  <1>n. PICK n : n = w.feId
    OBVIOUS
  <1>v. PICK v : v = [w EXCEPT !.at = "store"]
    OBVIOUS
  <1>1. /\ w \in AuthRequest /\ LoginRight(w) /\ w.at = "commit"
        /\ ~LoginViolates(w)
        /\ authReq' = [authReq EXCEPT ![s] = v]
    BY <1>w, <1>v, AuthBusy DEF CommitLogin, At, Goes
  <1>2. /\ role' = IF w.role = w.seen THEN role ELSE [role EXCEPT ![u] = w.role]
        /\ feId' = IF n = 0 THEN feId ELSE [feId EXCEPT ![u] = n]
        /\ UNCHANGED <<refresh, issued, held, broken, single>>
    BY <1>w, <1>u, <1>n DEF CommitLogin
  <1>3. AccountsTypeOK /\ PartnersRegistered
    BY DEF RegisterInv
  <1>4. u \in Users /\ w.role \in Roles /\ n \in Nat
    BY <1>1, <1>u, <1>n, <1>3, PartnersFinite DEF AuthRequest
  <1>5. v \in AuthRequest /\ v.at = "store" /\ v.role = w.role /\ v.wants = w.wants
    BY <1>1, <1>v DEF AuthRequest
  <1>6. LoginRight(v)'
    <2>1. w.wants = "DELIVERY_PARTNER" => w.role = "DELIVERY_PARTNER"
      BY <1>1 DEF LoginRight
    <2>2. QED
      BY <1>5, <2>1 DEF LoginRight
  <1>7. /\ Cardinality(Partners) \in Nat
        /\ IsFiniteSet(Partners)
        /\ {feId[q] : q \in Partners} = 1..Cardinality(Partners)
    BY <1>3, PartnersFinite DEF PartnersRegistered
  <1>8. /\ Partners \subseteq Partners'
        /\ {feId'[q] : q \in Partners'} = 1..Cardinality(Partners')
        /\ n # 0 => u \in Partners' /\ n \in FeIds
    <2>1. CASE n = 0
      <3>1. Partners' = Partners
        BY <1>2, <2>1 DEF Partners
      <3>2. QED
        BY <1>2, <1>7, <2>1, <3>1
    <2>2. CASE n # 0
      <3>1. /\ feId[u] = 0
            /\ \A q \in Users : feId[q] # n
        BY <1>1, <1>u, <1>n, <2>2 DEF LoginViolates
      <3>2. n <= Cardinality(Partners) + 1
        BY <1>1, <1>n DEF LoginRight
      <3>3. n \notin 1..Cardinality(Partners)
        <4>1. n \notin {feId[q] : q \in Partners}
          BY <3>1 DEF Partners
        <4>2. QED
          BY <1>7, <4>1
      <3>4. n = Cardinality(Partners) + 1
        BY <1>4, <1>7, <2>2, <3>2, <3>3
      <3>5. /\ feId'[u] = n
            /\ \A q \in Users \ {u} : feId'[q] = feId[q]
        BY <1>2, <1>3, <1>4, <2>2 DEF AccountsTypeOK
      <3>6. Partners' = Partners \cup {u} /\ u \notin Partners
        BY <1>4, <2>2, <3>1, <3>5 DEF Partners
      <3>7. Cardinality(Partners') = n
        BY <1>7, <3>4, <3>6, FS_AddElement
      <3>8. {feId'[q] : q \in Partners'} = {feId[q] : q \in Partners} \cup {n}
        <4>1. \A q \in Partners : q \in Users \ {u}
          BY <3>6 DEF Partners
        <4>2. QED
          BY <3>5, <3>6, <4>1
      <3>9. 1..n = (1..Cardinality(Partners)) \cup {n}
        BY <1>7, <3>4
      <3>10. n <= Cardinality(Users)
        <4>1. Partners' \in SUBSET Users
          BY DEF Partners
        <4>2. QED
          BY <3>7, <4>1, AccountsAssumption, FS_Subset
      <3>11. n \in FeIds
        BY <1>3, <1>4, <3>10, PartnersFinite DEF FeIds
      <3>12. QED
        BY <1>7, <3>6, <3>7, <3>8, <3>9, <3>11
    <2>3. QED
      BY <2>1, <2>2
  <1>9. \A q \in Users : role'[q] = "DELIVERY_PARTNER" => q \in Partners'
    <2>1. ASSUME NEW q \in Users, role[q] = "DELIVERY_PARTNER"
          PROVE  q \in Partners'
      BY <1>3, <1>8, <2>1 DEF PartnersRegistered
    <2>2. ASSUME w.role # w.seen, w.role = "DELIVERY_PARTNER"
          PROVE  u \in Partners'
      BY <1>1, <1>n, <1>8, <2>2 DEF LoginRight
    <2>3. QED
      BY <1>2, <1>3, <1>4, <2>1, <2>2 DEF AccountsTypeOK
  <1>10. PartnersRegistered'
    BY <1>8, <1>9 DEF PartnersRegistered
  <1>11. AccountsTypeOK'
    <2>1. role' \in [Users -> Known]
      BY <1>2, <1>3, <1>4 DEF AccountsTypeOK, Known
    <2>2. feId' \in [Users -> FeIds]
      BY <1>2, <1>3, <1>4, <1>8 DEF AccountsTypeOK
    <2>3. QED
      BY <1>1, <1>2, <1>3, <1>5, <2>1, <2>2 DEF AccountsTypeOK
  <1>12. QED
    BY <1>1, <1>5, <1>6, <1>8, <1>10, <1>11, AuthMoves

\* The steps that store tokens.
LEMMA TokenSteps ==
    ASSUME RegisterInv, NEW s \in Sessions,
           \/ StoreToken(s) \/ AppStoreToken(s) \/ Rotate(s) \/ Revoke(s)
           \/ AuthFails(s) \/ AnswerLost(s) \/ LoginConflict(s)
    PROVE  RegisterInv'
  <1>1. AccountsTypeOK
    BY DEF RegisterInv
  <1>2. authReq[s] \in AuthRequest /\ authReq[s].user \in Users
    BY AuthBusy DEF StoreToken, AppStoreToken, Rotate, Revoke, AuthFails,
       AnswerLost, LoginConflict, At, AuthRequest
  <1>3. UNCHANGED <<role, feId>>
    BY DEF StoreToken, AppStoreToken, Rotate, Revoke, AuthFails, AnswerLost,
       LoginConflict
  <1>4. Partners' = Partners /\ PartnersRegistered'
    BY <1>3, RowsStay
  <1>5. /\ refresh' \in [Users -> Nat]
        /\ issued' \in [Users -> Nat]
        /\ \A q \in Users : issued'[q] <= MaxTokens[q]
        /\ held' \in [Users -> Nat]
        /\ broken' \in SUBSET Users
        /\ single' \in SUBSET Users
    <2>. PICK u \in Users : u = authReq[s].user
      BY <1>2
    <2>1. MaxTokens[u] \in Nat /\ issued[u] \in Nat
      BY <1>1, AccountsAssumption DEF AccountsTypeOK
    <2>2. CASE StoreToken(s) \/ Rotate(s)
      BY <1>1, <2>1, <2>2, AccountsAssumption
         DEF StoreToken, Rotate, Issue, AccountsTypeOK
    <2>3. CASE AppStoreToken(s)
      BY <1>1, <2>1, <2>3, AccountsAssumption DEF AppStoreToken, AccountsTypeOK
    <2>4. CASE AnswerLost(s)
      BY <1>1, <2>1, <2>4, AccountsAssumption DEF AnswerLost, AccountsTypeOK
    <2>5. CASE Revoke(s) \/ AuthFails(s) \/ LoginConflict(s)
      BY <1>1, <2>5 DEF Revoke, AuthFails, LoginConflict, AccountsTypeOK
    <2>6. QED
      BY <2>2, <2>3, <2>4, <2>5
  <1>6. PICK w \in AuthRequest \cup {Idle} :
            /\ authReq' = [authReq EXCEPT ![s] = w]
            /\ w # Idle => LoginRight(w)'
    <2>1. CASE AppStoreToken(s)
      <3>v. PICK v : v = authReq[s]
        OBVIOUS
      <3>w. PICK w : w = [v EXCEPT !.at = "role",
                          !.token = issued[v.user] + 1]
        OBVIOUS
      <3>1. v \in AuthRequest /\ v.user \in Users /\ v.at = "store"
        BY <1>2, <2>1, <3>v DEF AppStoreToken, At
      <3>2. issued[v.user] + 1 \in Nat
        BY <1>1, <3>1 DEF AccountsTypeOK
      <3>3. /\ w \in AuthRequest /\ w.at = "role"
            /\ w.wants = v.wants /\ w.role = v.role
        BY <3>w, <3>1, <3>2 DEF AuthRequest
      <3>4. authReq' = [authReq EXCEPT ![s] = w]
        BY <1>1, <2>1, <3>v, <3>w, <3>1
           DEF AppStoreToken, AccountsTypeOK, AuthRequest
      <3>5. v.wants = "DELIVERY_PARTNER" => v.role = "DELIVERY_PARTNER"
        BY <3>v, <3>1, AuthBusy, AuthRequestNotIdle DEF LoginRight
      <3>6. LoginRight(w)'
        BY <3>3, <3>5 DEF LoginRight
      <3>7. QED
        BY <3>3, <3>4, <3>6
    <2>2. CASE ~AppStoreToken(s)
      BY <2>2 DEF StoreToken, Rotate, Revoke, AuthFails, AnswerLost,
         LoginConflict, Ends
    <2>3. QED
      BY <2>1, <2>2
  <1>7. AccountsTypeOK'
    BY <1>1, <1>3, <1>5, <1>6 DEF AccountsTypeOK
  <1>8. QED
    BY <1>4, <1>6, <1>7, AuthMoves

\* The app's second transaction makes nobody a partner.
LEMMA AppRoleStep ==
    ASSUME RegisterInv, NEW s \in Sessions, AppRole(s)
    PROVE  RegisterInv'
  <1>w. PICK w : w = authReq[s]
    OBVIOUS
  <1>u. PICK u : u = w.user
    OBVIOUS
  <1>1. w \in AuthRequest /\ LoginRight(w) /\ w.at = "role"
    BY <1>w, AuthBusy DEF AppRole, At
  <1>2. AccountsTypeOK /\ PartnersRegistered
    BY DEF RegisterInv
  <1>3. u \in Users /\ w.wants \in Roles /\ w.token \in Nat
    BY <1>1, <1>u DEF AuthRequest
  <1>4. /\ role' = IF w.wants = w.role THEN role ELSE [role EXCEPT ![u] = w.wants]
        /\ held' = [held EXCEPT ![u] = w.token]
        /\ authReq' = [authReq EXCEPT ![s] = Idle]
        /\ UNCHANGED <<feId, refresh, issued, broken, single>>
    BY <1>w, <1>u DEF AppRole, Ends
  <1>5. w.wants = "DELIVERY_PARTNER" => w.role = "DELIVERY_PARTNER"
    BY <1>1 DEF LoginRight
  <1>6. Partners' = Partners
    BY <1>4 DEF Partners
  <1>7. \A q \in Users : role'[q] = "DELIVERY_PARTNER" => role[q] = "DELIVERY_PARTNER"
    BY <1>2, <1>3, <1>4, <1>5 DEF AccountsTypeOK
  <1>8. PartnersRegistered'
    BY <1>2, <1>4, <1>6, <1>7 DEF PartnersRegistered
  <1>9. AccountsTypeOK'
    BY <1>2, <1>3, <1>4 DEF AccountsTypeOK, Known
  <1>10. QED
    BY <1>4, <1>6, <1>8, <1>9, AuthMoves

\* Asking for new tokens, logging out, a key that expires.
LEMMA RefreshSteps ==
    ASSUME RegisterInv, NEW u \in Users,
           \/ \E s \in Sessions : RefreshTokens(s, u) \/ Logout(s, u)
           \/ TokenExpires(u)
    PROVE  RegisterInv'
  <1>1. AccountsTypeOK
    BY DEF RegisterInv
  <1>2. Partners' = Partners /\ PartnersRegistered'
    BY RowsStay DEF RefreshTokens, Logout, TokenExpires
  <1>3. ASSUME NEW s \in Sessions, RefreshTokens(s, u) PROVE RegisterInv'
    <2>w. PICK w : w =
         [user |-> u, at |-> IF held[u] = refresh[u] THEN "rotate" ELSE "revoke",
          seen |-> role[u], role |-> "CUSTOMER", feId |-> 0, app |-> FALSE,
          wants |-> "CUSTOMER", token |-> 0]
      OBVIOUS
    <2>1. w \in AuthRequest /\ w.at \in {"rotate", "revoke"}
      BY <1>1, <2>w, PartnersFinite DEF AuthRequest, AccountsTypeOK, Roles
    <2>2. /\ authReq' = [authReq EXCEPT ![s] = w]
          /\ UNCHANGED <<role, feId, refresh, issued, held, broken, single>>
      BY <1>3, <2>w DEF RefreshTokens
    <2>3. LoginRight(w)'
      BY <2>1 DEF LoginRight
    <2>4. AccountsTypeOK'
      BY <1>1, <2>1, <2>2 DEF AccountsTypeOK
    <2>5. QED
      BY <1>2, <2>1, <2>2, <2>3, <2>4, AuthMoves
  <1>4. ASSUME (\E s \in Sessions : Logout(s, u)) \/ TokenExpires(u)
        PROVE  RegisterInv'
    <2>1. /\ refresh' = [refresh EXCEPT ![u] = 0]
          /\ UNCHANGED <<role, feId, issued, held, authReq, broken, single>>
      BY <1>4 DEF Logout, TokenExpires
    <2>2. AccountsTypeOK'
      BY <1>1, <2>1 DEF AccountsTypeOK
    <2>3. QED
      BY <1>2, <2>1, <2>2 DEF RegisterInv, LoginRight
  <1>5. QED
    BY <1>3, <1>4

LEMMA RegisterInit == AccountsInit => RegisterInv
  <1>. SUFFICES ASSUME AccountsInit PROVE RegisterInv
    OBVIOUS
  <1>1. Partners = {}
    BY DEF AccountsInit, Partners
  <1>2. Cardinality(Partners) = 0
    BY <1>1, FS_EmptySet
  <1>3. PartnersRegistered
    BY <1>1, <1>2 DEF PartnersRegistered, AccountsInit, Absent
  <1>4. Cardinality(Users) \in Nat
    BY AccountsAssumption, FS_CardinalityType
  <1>5. AccountsTypeOK
    BY <1>4, AccountsAssumption DEF AccountsInit, AccountsTypeOK, Known, FeIds
  <1>6. QED
    BY <1>3, <1>5 DEF RegisterInv, AccountsInit

LEMMA RegisterNext == RegisterInv /\ [AccountsNext]_accountVars => RegisterInv'
  <1>. SUFFICES ASSUME RegisterInv, [AccountsNext]_accountVars PROVE RegisterInv'
    OBVIOUS
  <1>1. CASE AccountsNext
    BY <1>1, LoginStep, CommitLoginStep, TokenSteps, AppRoleStep, RefreshSteps
       DEF AccountsNext
  <1>2. CASE UNCHANGED accountVars
    <2>1. Partners' = Partners /\ PartnersRegistered'
      BY <1>2, RowsStay DEF accountVars
    <2>2. QED
      BY <1>2, <2>1 DEF accountVars, RegisterInv, AccountsTypeOK, LoginRight
  <1>3. QED
    BY <1>1, <1>2

\* Accounts are well typed; in particular the number that a login computes by
\* counting never exceeds the number of users.
THEOREM AccountsTypeCorrect == AccountsSpec => []AccountsTypeOK
  <1>1. RegisterInv => AccountsTypeOK
    BY DEF RegisterInv
  <1>2. QED
    BY <1>1, RegisterInit, RegisterNext, PTL DEF AccountsSpec

\* However logins overlap, whoever has the partner's role has a partner's row,
\* and the rows are numbered without a gap.
THEOREM PartnersAlwaysRegistered == AccountsSpec => []PartnersRegistered
  <1>1. RegisterInv => PartnersRegistered
    BY DEF RegisterInv
  <1>2. QED
    BY <1>1, RegisterInit, RegisterNext, PTL DEF AccountsSpec

-----------------------------------------------------------------------------
(* Accounts: the inductive invariant of the refresh tokens *)

\* A client that waits for each answer has one request under way.
OneAtATime ==
    \A s, t \in Sessions :
        /\ authReq[s] # Idle /\ authReq[t] # Idle
        /\ authReq[s].user = authReq[t].user
        /\ authReq[s].user \in single
        => s = t

\* The app is about to receive the token that it logged in with.
Receives(s, u) == authReq[s] # Idle /\ authReq[s].user = u /\ authReq[s].at = "role"

\* The stored token is the one that the client holds, or will in one step.
TokenRight(u) ==
    /\ \A s \in Sessions : Receives(s, u) => refresh[u] \in {0, authReq[s].token}
    /\ (\A s \in Sessions : ~Receives(s, u)) => refresh[u] \in {0, held[u]}

TokenInv ==
    /\ RegisterInv
    /\ OneAtATime
    /\ \A u \in single \ broken : TokenRight(u)

-----------------------------------------------------------------------------
(* Accounts: the steps *)

\* A request of one user leaves the tokens of the others alone.
LEMMA TokenMoves ==
    ASSUME TokenInv, RegisterInv', NEW s \in Sessions, NEW u \in Users,
           authReq[s] # Idle => authReq[s].user = u,
           authReq[s] = Idle => (u \in single => AloneOn(authReq, "user", u)),
           NEW w \in AuthRequest \cup {Idle},
           authReq' = [authReq EXCEPT ![s] = w],
           w # Idle => w.user = u,
           single' = single, broken \subseteq broken',
           \A v \in Users \ {u} : refresh'[v] = refresh[v] /\ held'[v] = held[v],
           u \in single \ broken' =>
               IF w # Idle /\ w.at = "role" THEN refresh'[u] \in {0, w.token}
                                            ELSE refresh'[u] \in {0, held'[u]}
    PROVE  TokenInv'
  <1>1. authReq \in [Sessions -> AuthRequest \cup {Idle}] /\ single \in SUBSET Users
    BY DEF TokenInv, RegisterInv, AccountsTypeOK
  <1>2. authReq'[s] = w /\ \A t \in Sessions \ {s} : authReq'[t] = authReq[t]
    BY <1>1
  <1>3. u \in single =>
            \A t \in Sessions \ {s} : authReq[t] # Idle => authReq[t].user # u
    BY DEF TokenInv, OneAtATime, AloneOn
  <1>4. OneAtATime'
    BY <1>2, <1>3 DEF TokenInv, OneAtATime
  <1>5. ASSUME NEW v \in single \ broken' PROVE TokenRight(v)'
    <2>1. CASE v = u
      <3>1. \A t \in Sessions : Receives(t, u)' => t = s
        BY <1>2, <1>3, <1>5, <2>1 DEF Receives
      <3>2. Receives(s, u)' <=> w # Idle /\ w.at = "role"
        BY <1>2 DEF Receives
      <3>3. QED
        BY <1>2, <1>5, <2>1, <3>1, <3>2 DEF TokenRight
    <2>2. CASE v # u
      <3>1. v \in Users /\ v \in single \ broken
        BY <1>1, <1>5
      <3>2. \A t \in Sessions : Receives(t, v)' <=> Receives(t, v)
        BY <1>2, <2>2 DEF Receives
      <3>3. \A t \in Sessions : Receives(t, v) => authReq'[t] = authReq[t]
        BY <1>2, <2>2 DEF Receives
      <3>4. refresh'[v] = refresh[v] /\ held'[v] = held[v]
        BY <2>2, <3>1
      <3>5. TokenRight(v)
        BY <3>1 DEF TokenInv
      <3>6. QED
        BY <3>2, <3>3, <3>4, <3>5 DEF TokenRight
    <2>3. QED
      BY <2>1, <2>2
  <1>6. QED
    BY <1>4, <1>5 DEF TokenInv

\* What is known of the user of a request that is under way.
LEMMA TokenFacts ==
    ASSUME TokenInv, NEW s \in Sessions, authReq[s] # Idle
    PROVE  /\ authReq[s] \in AuthRequest
           /\ authReq[s].user \in Users
           /\ authReq[s].user \in single \ broken /\ authReq[s].at # "role" =>
                 refresh[authReq[s].user] \in {0, held[authReq[s].user]}
           /\ authReq[s].user \in single \ broken /\ authReq[s].at = "role" =>
                 refresh[authReq[s].user] \in {0, authReq[s].token}
  <1>1. authReq[s] \in AuthRequest /\ authReq[s].user \in Users
    BY AuthBusy DEF TokenInv, AuthRequest
  <1>2. ASSUME authReq[s].user \in single \ broken, authReq[s].at # "role"
        PROVE  refresh[authReq[s].user] \in {0, held[authReq[s].user]}
    <2>1. \A t \in Sessions : ~Receives(t, authReq[s].user)
      BY <1>2 DEF TokenInv, OneAtATime, Receives
    <2>2. QED
      BY <1>2, <2>1 DEF TokenInv, TokenRight
  <1>3. ASSUME authReq[s].user \in single \ broken, authReq[s].at = "role"
        PROVE  refresh[authReq[s].user] \in {0, authReq[s].token}
    BY <1>3 DEF TokenInv, TokenRight, Receives
  <1>4. QED
    BY <1>1, <1>2, <1>3

\* A user for whom nothing is under way.
LEMMA TokenAtRest ==
    ASSUME TokenInv, NEW u \in single \ broken, AloneOn(authReq, "user", u)
    PROVE  refresh[u] \in {0, held[u]}
  BY DEF TokenInv, TokenRight, Receives, AloneOn

\* A request that starts finds a token of its user's that is right.
LEMMA TokenStarts ==
    ASSUME TokenInv, RegisterInv', NEW s \in Sessions, NEW u \in Users,
           NEW w \in AuthRequest, Starts(s, u),
           authReq' = [authReq EXCEPT ![s] = w], w.user = u, w.at # "role",
           UNCHANGED <<refresh, held, broken, single>>
    PROVE  TokenInv'
  <1>1. authReq[s] = Idle /\ (u \in single => AloneOn(authReq, "user", u))
    BY DEF Starts
  <1>2. u \in single \ broken => refresh[u] \in {0, held[u]}
    BY <1>1, TokenAtRest
  <1>3. QED
    BY <1>1, <1>2, TokenMoves

\* A request that takes the tokens along.
LEMMA TokenGoesOn ==
    ASSUME TokenInv, RegisterInv', NEW s \in Sessions,
           \/ CommitLogin(s) \/ LoginConflict(s)
           \/ StoreToken(s) \/ AppStoreToken(s) \/ AppRole(s)
           \/ Rotate(s) \/ Revoke(s) \/ AuthFails(s) \/ AnswerLost(s)
    PROVE  TokenInv'
  <1>v. PICK v : v = authReq[s]
    OBVIOUS
  <1>u. PICK u : u = v.user
    OBVIOUS
  <1>1. authReq[s] # Idle
    BY DEF CommitLogin, LoginConflict, StoreToken, AppStoreToken, AppRole,
       Rotate, Revoke, AuthFails, AnswerLost, At
  <1>2. /\ v \in AuthRequest /\ u \in Users
        /\ u \in single \ broken /\ v.at # "role" => refresh[u] \in {0, held[u]}
        /\ u \in single \ broken /\ v.at = "role" => refresh[u] \in {0, v.token}
    BY <1>v, <1>u, <1>1, TokenFacts
  <1>3. AccountsTypeOK
    BY DEF TokenInv, RegisterInv
  <1>4. /\ refresh \in [Users -> Nat] /\ held \in [Users -> Nat]
        /\ issued \in [Users -> Nat]
        /\ authReq \in [Sessions -> AuthRequest \cup {Idle}]
    BY <1>3 DEF AccountsTypeOK
  <1>5. CASE CommitLogin(s)
    <2>w. PICK w : w = [v EXCEPT !.at = "store"]
      OBVIOUS
    <2>1. w \in AuthRequest /\ w.at = "store" /\ w.user = u
      BY <1>u, <1>2, <2>w DEF AuthRequest
    <2>2. /\ authReq' = [authReq EXCEPT ![s] = w] /\ v.at = "commit"
          /\ UNCHANGED <<refresh, held, broken, single>>
      BY <1>v, <2>w, <1>5 DEF CommitLogin, Goes, At
    <2>3. QED
      BY <1>v, <1>u, <1>1, <1>2, <2>1, <2>2, TokenMoves
  <1>6. CASE AppStoreToken(s)
    <2>n. PICK n \in Nat : n = issued[u] + 1
      BY <1>2, <1>4
    <2>w. PICK w : w = [v EXCEPT !.at = "role", !.token = n]
      OBVIOUS
    <2>1. w \in AuthRequest /\ w.at = "role" /\ w.user = u /\ w.token = n
      BY <1>u, <1>2, <2>w DEF AuthRequest
    <2>2. /\ refresh' = [refresh EXCEPT ![u] = issued[u] + 1]
          /\ UNCHANGED <<held, broken, single>>
      BY <1>v, <1>u, <1>6 DEF AppStoreToken
    <2>3. authReq' = [authReq EXCEPT ![s] = w]
      BY <1>v, <1>u, <1>4, <2>n, <2>w, <1>6 DEF AppStoreToken
    <2>4. refresh'[u] = w.token
      BY <1>2, <1>4, <2>n, <2>1, <2>2
    <2>5. \A q \in Users \ {u} : refresh'[q] = refresh[q] /\ held'[q] = held[q]
      BY <1>2, <1>4, <2>2
    <2>6. w # Idle
      BY <2>1, AuthRequestNotIdle
    <2>7. /\ single' = single /\ broken \subseteq broken'
          /\ authReq[s] # Idle => authReq[s].user = u
      BY <1>v, <1>u, <2>2
    <2>8. QED
      BY <1>1, <1>2, <2>1, <2>3, <2>4, <2>5, <2>6, <2>7, TokenMoves
  <1>7. CASE AppRole(s)
    <2>1. /\ authReq' = [authReq EXCEPT ![s] = Idle] /\ v.at = "role"
          /\ held' = [held EXCEPT ![u] = v.token]
          /\ UNCHANGED <<refresh, broken, single>>
      BY <1>v, <1>u, <1>7 DEF AppRole, Ends, At
    <2>2. /\ held'[u] = v.token
          /\ \A q \in Users \ {u} : refresh'[q] = refresh[q] /\ held'[q] = held[q]
      BY <1>2, <1>4, <2>1
    <2>3. u \in single \ broken' => refresh'[u] \in {0, held'[u]}
      BY <1>2, <2>1, <2>2
    <2>4. /\ single' = single /\ broken \subseteq broken'
          /\ authReq[s] # Idle => authReq[s].user = u
      BY <1>v, <1>u, <2>1
    <2>5. QED
      BY <1>1, <1>2, <2>1, <2>2, <2>3, <2>4, TokenMoves
  <1>8. CASE StoreToken(s) \/ Rotate(s)
    <2>1. /\ authReq' = [authReq EXCEPT ![s] = Idle]
          /\ held' = [held EXCEPT ![u] = issued[u] + 1]
          /\ refresh' = [refresh EXCEPT ![u] = issued[u] + 1]
          /\ UNCHANGED <<broken, single>>
      BY <1>v, <1>u, <1>8 DEF StoreToken, Rotate, Issue, Ends
    <2>2. /\ held'[u] = refresh'[u]
          /\ \A q \in Users \ {u} : refresh'[q] = refresh[q] /\ held'[q] = held[q]
      BY <1>2, <1>4, <2>1
    <2>3. /\ single' = single /\ broken \subseteq broken'
          /\ authReq[s] # Idle => authReq[s].user = u
      BY <1>v, <1>u, <2>1
    <2>4. QED
      BY <1>1, <1>2, <2>1, <2>2, <2>3, TokenMoves
  <1>9. CASE Revoke(s)
    <2>1. /\ authReq' = [authReq EXCEPT ![s] = Idle]
          /\ refresh' = [refresh EXCEPT ![u] = 0]
          /\ UNCHANGED <<held, broken, single>>
      BY <1>v, <1>u, <1>9 DEF Revoke, Ends
    <2>2. refresh'[u] = 0 /\ \A q \in Users \ {u} : refresh'[q] = refresh[q]
      BY <1>2, <1>4, <2>1
    <2>3. QED
      BY <1>v, <1>u, <1>1, <1>2, <2>1, <2>2, TokenMoves
  <1>10. CASE LoginConflict(s)
    <2>1. /\ authReq' = [authReq EXCEPT ![s] = Idle] /\ v.at = "commit"
          /\ UNCHANGED <<refresh, held, broken, single>>
      BY <1>v, <1>10 DEF LoginConflict, Ends, At
    <2>2. QED
      BY <1>v, <1>u, <1>1, <1>2, <2>1, TokenMoves
  <1>11. CASE AuthFails(s) \/ AnswerLost(s)
    <2>1. /\ authReq' = [authReq EXCEPT ![s] = Idle]
          /\ broken' = broken \cup {u}
          /\ refresh' = refresh \/ refresh' = [refresh EXCEPT ![u] = issued[u] + 1]
          /\ UNCHANGED <<held, single>>
      BY <1>v, <1>u, <1>11 DEF AuthFails, AnswerLost, Ends
    <2>2. \A q \in Users \ {u} : refresh'[q] = refresh[q]
      BY <1>4, <2>1
    <2>3. QED
      BY <1>v, <1>u, <1>1, <1>2, <2>1, <2>2, TokenMoves
  <1>12. QED
    BY <1>5, <1>6, <1>7, <1>8, <1>9, <1>10, <1>11

\* A stored token that goes is gone for its user alone.
LEMMA TokenGoes ==
    ASSUME TokenInv, RegisterInv', NEW u \in Users,
           refresh' = [refresh EXCEPT ![u] = 0],
           UNCHANGED <<held, authReq, broken, single>>
    PROVE  TokenInv'
  <1>1. refresh'[u] = 0 /\ \A q \in Users \ {u} : refresh'[q] = refresh[q]
    BY DEF TokenInv, RegisterInv, AccountsTypeOK
  <1>2. OneAtATime'
    BY DEF TokenInv, OneAtATime
  <1>3. ASSUME NEW q \in single \ broken PROVE TokenRight(q)'
    <2>1. q \in Users /\ TokenRight(q)
      BY <1>3 DEF TokenInv, RegisterInv, AccountsTypeOK
    <2>2. refresh'[q] \in {0, refresh[q]}
      BY <1>1, <2>1
    <2>3. QED
      BY <2>1, <2>2 DEF TokenRight, Receives
  <1>4. QED
    BY <1>2, <1>3 DEF TokenInv

LEMMA TokenNext == TokenInv /\ [AccountsNext]_accountVars => TokenInv'
  <1>. SUFFICES ASSUME TokenInv, [AccountsNext]_accountVars PROVE TokenInv'
    OBVIOUS
  <1>1. RegisterInv'
    BY RegisterNext DEF TokenInv
  <1>2. AccountsTypeOK
    BY DEF TokenInv, RegisterInv
  <1>3. ASSUME NEW s \in Sessions, NEW u \in Users, NEW wants \in Roles,
               NEW app \in BOOLEAN, Login(s, u, wants, app)
        PROVE  TokenInv'
    <2>0. PICK w :
            /\ w = [user |-> u, at |-> "commit", seen |-> role[u],
                     role |-> IF wants = "CUSTOMER"
                              THEN IF role[u] = Absent THEN "CUSTOMER" ELSE role[u]
                              ELSE wants,
                     feId |-> IF /\ wants = "DELIVERY_PARTNER"
                                 /\ role[u] # "DELIVERY_PARTNER"
                              THEN NextFeId ELSE 0,
                     app |-> app, wants |-> wants, token |-> 0]
            /\ authReq' = [authReq EXCEPT ![s] = w]
      BY <1>3 DEF Login
    <2>1. w.user = u /\ w.at = "commit" /\ authReq' = [authReq EXCEPT ![s] = w]
      BY <2>0
    <2>2. w \in AuthRequest
      <3>1. authReq'[s] = w
        BY <1>2, <2>1 DEF AccountsTypeOK
      <3>2. w # Idle
        BY <2>1 DEF Idle
      <3>3. QED
        BY <1>1, <3>1, <3>2 DEF RegisterInv, AccountsTypeOK
    <2>3. Starts(s, u) /\ UNCHANGED <<refresh, held, broken, single>>
      BY <1>3 DEF Login
    <2>4. QED
      BY <1>1, <2>1, <2>2, <2>3, TokenStarts
  <1>4. ASSUME NEW s \in Sessions, NEW u \in Users, RefreshTokens(s, u)
        PROVE  TokenInv'
    <2>0. PICK w :
            /\ w = [user |-> u, at |-> IF held[u] = refresh[u] THEN "rotate"
                                                              ELSE "revoke",
                     seen |-> role[u], role |-> "CUSTOMER", feId |-> 0,
                     app |-> FALSE, wants |-> "CUSTOMER", token |-> 0]
            /\ authReq' = [authReq EXCEPT ![s] = w]
      BY <1>4 DEF RefreshTokens
    <2>1. /\ w.user = u /\ w.at \in {"rotate", "revoke"}
          /\ authReq' = [authReq EXCEPT ![s] = w]
      BY <2>0
    <2>2. w \in AuthRequest
      <3>1. authReq'[s] = w
        BY <1>2, <2>1 DEF AccountsTypeOK
      <3>2. w # Idle
        BY <2>1 DEF Idle
      <3>3. QED
        BY <1>1, <3>1, <3>2 DEF RegisterInv, AccountsTypeOK
    <2>3. Starts(s, u) /\ UNCHANGED <<refresh, held, broken, single>>
      BY <1>4 DEF RefreshTokens
    <2>4. QED
      BY <1>1, <2>1, <2>2, <2>3, TokenStarts
  <1>5. ASSUME NEW u \in Users,
               (\E s \in Sessions : Logout(s, u)) \/ TokenExpires(u)
        PROVE  TokenInv'
    <2>1. /\ refresh' = [refresh EXCEPT ![u] = 0]
          /\ UNCHANGED <<held, authReq, broken, single>>
      BY <1>5 DEF Logout, TokenExpires
    <2>2. QED
      BY <1>1, <2>1, TokenGoes
  <1>6. CASE UNCHANGED accountVars
    BY <1>1, <1>6 DEF accountVars, TokenInv, OneAtATime, TokenRight, Receives
  <1>7. CASE AccountsNext
    BY <1>1, <1>3, <1>4, <1>5, <1>7, TokenGoesOn DEF AccountsNext
  <1>8. QED
    BY <1>6, <1>7

\* A client that waits for each answer and misses none stays logged in.
THEOREM ClientsStayLoggedIn == AccountsSpec => []StaysLoggedIn
  <1>1. AccountsInit => TokenInv
    <2>. SUFFICES ASSUME AccountsInit PROVE TokenInv
      OBVIOUS
    <2>1. RegisterInv
      BY RegisterInit
    <2>2. OneAtATime
      BY DEF AccountsInit, OneAtATime
    <2>3. \A u \in single \ broken : TokenRight(u)
      BY DEF AccountsInit, TokenRight, Receives
    <2>4. QED
      BY <2>1, <2>2, <2>3 DEF TokenInv
  <1>2. TokenInv => StaysLoggedIn
    BY TokenAtRest DEF StaysLoggedIn
  <1>3. QED
    BY <1>1, <1>2, TokenNext, PTL DEF AccountsSpec
=============================================================================
