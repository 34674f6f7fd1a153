-------------------------- MODULE RestaurantProofs --------------------------
(***************************************************************************)
(* Proofs about Restaurant for any sets of restaurants, documents and      *)
(* requests in flight.                                                     *)
(*                                                                         *)
(* Two facts are never taken back: a restaurant has its rows, and it has   *)
(* left PENDING_DOCS.  Right says what a request in flight may rely on     *)
(* because of that, whatever overlaps.  UploadsAwaited says who is still   *)
(* going to submit when the documents are complete.                        *)
(*                                                                         *)
(* For a restaurant on which requests do not overlap, OrderlyInv says what *)
(* the one request in flight plans: that what it has loaded is still so,   *)
(* and that the rows as its commit will leave them are in order.           *)
(***************************************************************************)
EXTENDS Restaurant, TLAPS

-----------------------------------------------------------------------------
(* The inductive invariant *)

HasLeft(r) == status[r] # "PENDING_DOCS"

\* What a request has read and is going to write.
Right(w) ==
    LET r == w.restaurant
    IN  /\ w.status # "PENDING_DOCS"
        /\ w.seen # "PENDING_DOCS" => HasLeft(r)
        /\ r \notin app /\ w.open = "TRUE" =>
             profile[r] /\ (w.status # Same \/ HasLeft(r))
        /\ r \notin app /\ w.places => profile[r] /\ HasLeft(r)
        /\ (\E d \in Docs : w.docs[d] # Same) /\ w.status = Same =>
             w.next = "check" \/ HasLeft(r)
        /\ w.next = "check" => w.status = Same /\ ~w.creates

\* A request that has decided nothing yet, or looks at the documents again.
Blank(w) ==
    /\ w.docs = Keep /\ w.inserts = {} /\ w.status = Same
    /\ ~w.creates /\ w.next = "end"

SessionRight(w) ==
    /\ Right(w)
    /\ w.at \in {"loaded", "check"} => Blank(w)
    /\ w.at = "loaded" => w.open = Same /\ ~w.places

\* The request is going to submit, or to decide, and no constraint stops it.
Awaited(w, r) ==
    /\ w # Idle /\ w.restaurant = r
    /\ w.at = "check" \/ (w.at = "commit" /\ w.status # Same)
    /\ w.inserts = {} /\ ~w.creates

UploadsAwaited ==
    faults = 0 =>
        \A r \in Restaurants :
            CanSubmit(r) /\ ~HasLeft(r) => \E s \in Sessions : Awaited(sess[s], r)

SessionsRight == \A s \in Sessions : Busy(s) => SessionRight(sess[s])

RestaurantInv ==
    TypeOK /\ SessionsRight /\ OpenWasReviewed /\ UploadsAwaited

-----------------------------------------------------------------------------
(* Lemmas *)

LEMMA WorkIsNotIdle ==
    ASSUME NEW w \in Work
    PROVE  w # Idle
  BY DEF Work, Idle

LEMMA BusyWorks ==
    ASSUME TypeOK, NEW s \in Sessions, Busy(s)
    PROVE  sess[s] \in Work /\ sess[s].restaurant \in Restaurants
  BY DEF TypeOK, Busy, Work

LEMMA InitHolds == Init => RestaurantInv
  <1> SUFFICES ASSUME Init PROVE RestaurantInv
    OBVIOUS
  <1>1. TypeOK
    BY RestaurantAssumption DEF Init, TypeOK, Status
  <1>2. SessionsRight
    BY DEF Init, SessionsRight, Busy
  <1>3. OpenWasReviewed
    BY DEF Init, OpenWasReviewed
  <1>4. UploadsAwaited
    <2>1. \A r \in Restaurants : ~CanSubmit(r)
      BY RestaurantAssumption
      DEF Init, CanSubmit, MissingRequired, Uploaded, Missing
    <2>2. QED
      BY <2>1 DEF UploadsAwaited
  <1>5. QED
    BY <1>1, <1>2, <1>3, <1>4 DEF RestaurantInv

\* A request stays right as the two facts are not taken back.
LEMMA RightStays ==
    ASSUME NEW w \in Work, SessionRight(w), app' = app,
           profile[w.restaurant] => profile'[w.restaurant],
           HasLeft(w.restaurant) => HasLeft(w.restaurant)'
    PROVE  SessionRight(w)'
  <1>1. Right(w)'
    BY DEF SessionRight, Right
  <1>2. QED
    BY <1>1 DEF SessionRight, Blank, Keep

\* A session moves on and nothing else changes.
LEMMA SessionMoves ==
    ASSUME RestaurantInv, NEW s \in Sessions, NEW w \in Work \cup {Idle},
           sess' = [sess EXCEPT ![s] = w], UNCHANGED <<rows, kinds>>,
           faults' \in 0..MaxFaults,
           w # Idle => SessionRight(w),
           \/ faults' # 0
           \/ /\ faults' = faults
              /\ \A r \in Restaurants :
                   CanSubmit(r) /\ ~HasLeft(r) /\ Awaited(sess[s], r) => Awaited(w, r)
    PROVE  RestaurantInv'
  <1> USE DEF rows, kinds
  <1>1. TypeOK'
    BY DEF RestaurantInv, TypeOK
  <1>2. \A t \in Sessions : sess'[t] = IF t = s THEN w ELSE sess[t]
    BY DEF RestaurantInv, TypeOK
  <1>3. SessionsRight'
    <2> SUFFICES ASSUME NEW t \in Sessions, Busy(t)' PROVE SessionRight(sess[t])'
      BY DEF SessionsRight
    <2>1. PICK v \in Work : v = sess'[t]
      BY <1>1, BusyWorks DEF TypeOK, Busy
    <2>2. SessionRight(v)
      BY <1>2, <2>1 DEF RestaurantInv, SessionsRight, Busy
    <2>3. SessionRight(v)'
      BY <2>2, RightStays DEF HasLeft
    <2>4. QED
      BY <2>1, <2>3
  <1>4. OpenWasReviewed'
    BY DEF RestaurantInv, OpenWasReviewed
  <1>5. UploadsAwaited'
    <2> SUFFICES ASSUME faults' = 0, NEW r \in Restaurants,
                        CanSubmit(r)', ~HasLeft(r)'
                 PROVE  \E t \in Sessions : Awaited(sess'[t], r)
      BY DEF UploadsAwaited, Awaited
    <2>1. CanSubmit(r) /\ ~HasLeft(r) /\ faults = 0
      BY DEF CanSubmit, MissingRequired, Uploaded, HasLeft
    <2>2. PICK t \in Sessions : Awaited(sess[t], r)
      BY <2>1 DEF RestaurantInv, UploadsAwaited
    <2>3. CASE t = s
      BY <1>2, <2>1, <2>2, <2>3
    <2>4. CASE t # s
      BY <1>2, <2>2, <2>4
    <2>5. QED
      BY <2>3, <2>4
  <1>6. QED
    BY <1>1, <1>3, <1>4, <1>5 DEF RestaurantInv

\* A request that has loaded the user decides what to write.
LEMMA Decides ==
    ASSUME RestaurantInv, NEW s \in Sessions, Loaded(s),
           NEW work \in Work, Right(work), Decide(s, work)
    PROVE  RestaurantInv'
  <1>1. PICK w \in Work : /\ w = [work EXCEPT !.at = "commit",
                                   !.seen = IF work.next = "end" THEN "PENDING_DOCS" ELSE @]
    BY DEF Work, Status
  <1>2. Right(w)
    BY <1>1 DEF Right, Work
  <1>3. SessionRight(w)
    BY <1>1, <1>2 DEF SessionRight, Work
  <1>4. \A r \in Restaurants : ~Awaited(sess[s], r)
    BY DEF Loaded, Awaited
  <1>5. sess' = [sess EXCEPT ![s] = w] /\ UNCHANGED <<rows, kinds>> /\ faults' = faults
    BY <1>1 DEF Decide
  <1>6. faults' \in 0..MaxFaults
    BY <1>5 DEF RestaurantInv, TypeOK
  <1>7. QED
    BY <1>3, <1>4, <1>5, <1>6, SessionMoves

\* What a request knows when it has loaded the user.
LEMMA LoadedFacts ==
    ASSUME RestaurantInv, NEW s \in Sessions, Loaded(s)
    PROVE  /\ sess[s] \in Work /\ sess[s].restaurant \in Restaurants
           /\ Right(sess[s]) /\ Blank(sess[s])
           /\ sess[s].open = Same /\ ~sess[s].places
           /\ \A d \in Docs : sess[s].docs[d] = Same
  <1>1. sess[s] \in Work /\ sess[s].restaurant \in Restaurants /\ SessionRight(sess[s])
    BY BusyWorks DEF RestaurantInv, SessionsRight, Loaded, Busy
  <1>2. QED
    BY <1>1 DEF SessionRight, Loaded, Blank, Keep

-----------------------------------------------------------------------------
(* The steps *)

LEMMA RequestKept ==
    ASSUME RestaurantInv, NEW s \in Sessions, NEW r \in Restaurants, Request(s, r)
    PROVE  RestaurantInv'
  <1> DEFINE w == [restaurant |-> r, at |-> "loaded", seen |-> status[r],
                   docs |-> Keep, inserts |-> {}, status |-> Same, open |-> Same,
                   creates |-> FALSE, places |-> FALSE, next |-> "end"]
  <1>1. status[r] \in Status
    BY DEF RestaurantInv, TypeOK
  <1>2. w \in Work
    BY <1>1 DEF Work, Keep
  <1>3. Right(w)
    BY <1>1 DEF Right, HasLeft, Keep, Same
  <1>4. SessionRight(w)
    BY <1>3 DEF SessionRight, Blank
  <1>5. \A q \in Restaurants : ~Awaited(sess[s], q)
    BY DEF Request, Busy, Awaited
  <1>6. sess' = [sess EXCEPT ![s] = w] /\ UNCHANGED <<rows, kinds>> /\ faults' = faults
    BY DEF Request
  <1>7. faults' \in 0..MaxFaults
    BY <1>6 DEF RestaurantInv, TypeOK
  <1> HIDE DEF w
  <1>8. QED
    BY <1>2, <1>4, <1>5, <1>6, <1>7, SessionMoves

LEMMA RefuseKept ==
    ASSUME RestaurantInv, NEW s \in Sessions, Refuse(s)
    PROVE  RestaurantInv'
  <1>1. \A q \in Restaurants : ~Awaited(sess[s], q)
    BY DEF Refuse, Loaded, Awaited
  <1>2. sess' = [sess EXCEPT ![s] = Idle] /\ UNCHANGED <<rows, kinds>> /\ faults' = faults
    BY DEF Refuse
  <1>3. faults' \in 0..MaxFaults
    BY <1>2 DEF RestaurantInv, TypeOK
  <1>4. QED
    BY <1>1, <1>2, <1>3, SessionMoves

LEMMA ConflictKept ==
    ASSUME RestaurantInv, NEW s \in Sessions, Conflict(s)
    PROVE  RestaurantInv'
  <1>1. \A q \in Restaurants : ~Awaited(sess[s], q)
    BY DEF Conflict, Violates, Awaited
  <1>2. sess' = [sess EXCEPT ![s] = Idle] /\ UNCHANGED <<rows, kinds>> /\ faults' = faults
    BY DEF Conflict
  <1>3. faults' \in 0..MaxFaults
    BY <1>2 DEF RestaurantInv, TypeOK
  <1>4. QED
    BY <1>1, <1>2, <1>3, SessionMoves

LEMMA FailKept ==
    ASSUME RestaurantInv, NEW s \in Sessions, Fail(s)
    PROVE  RestaurantInv'
  <1>1. sess' = [sess EXCEPT ![s] = Idle] /\ UNCHANGED <<rows, kinds>>
    BY DEF Fail
  <1>2. faults' \in 0..MaxFaults /\ faults' # 0
    BY RestaurantAssumption DEF Fail, RestaurantInv, TypeOK
  <1>3. QED
    BY <1>1, <1>2, SessionMoves

LEMMA SetupKept ==
    ASSUME RestaurantInv, NEW s \in Sessions, SetupRestaurant(s)
    PROVE  RestaurantInv'
  <1>1. Loaded(s)
    BY DEF SetupRestaurant
  <1>2. PICK work : work = [sess[s] EXCEPT !.creates = TRUE]
    OBVIOUS
  <1>3. work \in Work /\ Right(work)
    BY <1>1, <1>2, LoadedFacts DEF Work, Right, Blank
  <1>4. Decide(s, work)
    BY <1>2 DEF SetupRestaurant
  <1>5. QED
    BY <1>1, <1>3, <1>4, Decides

LEMMA CreateKept ==
    ASSUME RestaurantInv, NEW s \in Sessions, CreateRestaurant(s)
    PROVE  RestaurantInv'
  <1>1. Loaded(s)
    BY DEF CreateRestaurant
  <1>2. PICK work : work = [sess[s] EXCEPT !.creates = TRUE, !.next = "submit"]
    OBVIOUS
  <1>3. work \in Work /\ Right(work)
    BY <1>1, <1>2, LoadedFacts DEF Work, Right, Blank
  <1>4. Decide(s, work)
    BY <1>2 DEF CreateRestaurant
  <1>5. QED
    BY <1>1, <1>3, <1>4, Decides

LEMMA UploadKept ==
    ASSUME RestaurantInv, NEW s \in Sessions, NEW d \in Docs, UploadDocument(s, d)
    PROVE  RestaurantInv'
  <1> DEFINE r == sess[s].restaurant
  <1>1. Loaded(s)
    BY DEF UploadDocument
  <1>2. PICK new \in DocStatus \cup {Same} : new = Write(docs[r][d], "PENDING")
    BY DEF Write, DocStatus
  <1>3. PICK rs \in SUBSET Docs : rs = IF docs[r][d] = Missing THEN {d} ELSE {}
    OBVIOUS
  <1>4. PICK work : work = [sess[s] EXCEPT !.docs[d] = new, !.inserts = rs, !.next = "check"]
    OBVIOUS
  <1>5. work \in Work /\ Right(work)
    BY <1>1, <1>4, LoadedFacts DEF Work, Right, Blank
  <1>6. Decide(s, work)
    BY <1>2, <1>3, <1>4 DEF UploadDocument
  <1>7. QED
    BY <1>1, <1>5, <1>6, Decides

LEMMA RejectKept ==
    ASSUME RestaurantInv, NEW s \in Sessions, NEW d \in Docs, RejectDocument(s, d)
    PROVE  RestaurantInv'
  <1> DEFINE r == sess[s].restaurant
  <1>1. Loaded(s)
    BY DEF RejectDocument
  <1>2. PICK new \in DocStatus \cup {Same} :
           new = IF docs[r][d] = Missing THEN Same ELSE Write(docs[r][d], "REJECTED")
    BY DEF Write, DocStatus
  <1>3. PICK st \in Status \cup {Same} :
           /\ st = Write(sess[s].seen, "DOCS_REJECTED")
           /\ st \in {Same, "DOCS_REJECTED"}
           /\ st = Same => sess[s].seen = "DOCS_REJECTED"
    BY DEF Write, Status, Same
  <1>4. PICK work : work = [sess[s] EXCEPT !.docs[d] = new, !.status = st]
    OBVIOUS
  <1>5. work \in Work
    BY <1>1, <1>4, LoadedFacts DEF Work
  <1>6. Right(work)
    BY <1>1, <1>3, <1>4, LoadedFacts DEF Work, Right, Blank, Same
  <1>7. Decide(s, work)
    BY <1>2, <1>3, <1>4 DEF RejectDocument
  <1>8. QED
    BY <1>1, <1>5, <1>6, <1>7, Decides

LEMMA SubmitKept ==
    ASSUME RestaurantInv, NEW s \in Sessions, SubmitDocuments(s)
    PROVE  RestaurantInv'
  <1>1. Loaded(s)
    BY DEF SubmitDocuments
  <1>2. PICK work : work = [sess[s] EXCEPT !.status = "DOCS_SUBMITTED"]
    OBVIOUS
  <1>3. work \in Work /\ Right(work)
    BY <1>1, <1>2, LoadedFacts DEF Work, Right, Blank, Status, Same
  <1>4. Decide(s, work)
    BY <1>2 DEF SubmitDocuments
  <1>5. QED
    BY <1>1, <1>3, <1>4, Decides

LEMMA ApproveKept ==
    ASSUME RestaurantInv, NEW s \in Sessions, ApproveRestaurant(s)
    PROVE  RestaurantInv'
  <1> DEFINE r == sess[s].restaurant
  <1>1. Loaded(s) /\ profile[r]
    BY DEF ApproveRestaurant
  <1>2. PICK new \in [Docs -> DocStatus \cup {Same}] :
           new = [d \in Docs |-> IF docs[r][d] = Missing THEN Same
                                 ELSE Write(docs[r][d], "APPROVED")]
    BY DEF Write, DocStatus
  <1>3. PICK st \in Status \cup {Same} :
           /\ st = Write(sess[s].seen, "DOCS_APPROVED")
           /\ st \in {Same, "DOCS_APPROVED"}
           /\ st = Same => sess[s].seen = "DOCS_APPROVED"
    BY DEF Write, Status, Same
  <1>4. PICK op \in {"TRUE", Same} : op = IF isOpen[r] THEN Same ELSE "TRUE"
    OBVIOUS
  <1>5. PICK work : work = [sess[s] EXCEPT !.docs = new, !.status = st, !.open = op]
    OBVIOUS
  <1>6. work \in Work
    <2>1. sess[s] \in Work
      BY <1>1, LoadedFacts
    <2>2. QED
      BY <2>1, <1>5 DEF Work
  <1>7. Right(work)
    BY <1>1, <1>3, <1>5, LoadedFacts DEF Work, Right, Blank, Same
  <1>8. Decide(s, work)
    BY <1>2, <1>3, <1>4, <1>5 DEF ApproveRestaurant
  <1>9. QED
    BY <1>1, <1>6, <1>7, <1>8, Decides

LEMMA UpdateStatusKept ==
    ASSUME RestaurantInv, NEW s \in Sessions, NEW live \in BOOLEAN,
           UpdateRestaurantStatus(s, live)
    PROVE  RestaurantInv'
  <1> DEFINE r == sess[s].restaurant
  <1>1. Loaded(s) /\ r \in app
    BY DEF UpdateRestaurantStatus
  <1>2. PICK st \in Status \cup {Same} :
           /\ st = Write(sess[s].seen, IF live THEN "DOCS_APPROVED" ELSE "DOCS_REJECTED")
           /\ st # "PENDING_DOCS"
    BY DEF Write, Status, Same
  <1>3. PICK op \in {"TRUE", "FALSE", Same} :
           op = IF isOpen[r] = live THEN Same ELSE IF live THEN "TRUE" ELSE "FALSE"
    OBVIOUS
  <1>4. PICK work : work = [sess[s] EXCEPT !.status = st, !.open = op]
    OBVIOUS
  <1>5. work \in Work
    BY <1>1, <1>4, LoadedFacts DEF Work
  <1>6. Right(work)
    BY <1>1, <1>2, <1>4, LoadedFacts DEF Work, Right, Blank
  <1>7. Decide(s, work)
    BY <1>2, <1>3, <1>4 DEF UpdateRestaurantStatus
  <1>8. QED
    BY <1>1, <1>5, <1>6, <1>7, Decides

LEMMA SetOpenKept ==
    ASSUME RestaurantInv, NEW s \in Sessions, NEW b \in BOOLEAN, SetOpen(s, b),
           sess[s].seen = "DOCS_APPROVED" \/ sess[s].restaurant \in app
    PROVE  RestaurantInv'
  <1> DEFINE r == sess[s].restaurant
  <1>1. Loaded(s) /\ profile[r]
    BY DEF SetOpen
  <1>2. PICK op \in {"TRUE", "FALSE", Same} :
           op = IF isOpen[r] = b THEN Same ELSE IF b THEN "TRUE" ELSE "FALSE"
    OBVIOUS
  <1>3. PICK work : work = [sess[s] EXCEPT !.open = op]
    OBVIOUS
  <1>4. work \in Work
    BY <1>1, <1>3, LoadedFacts DEF Work
  <1>5. Right(work)
    BY <1>1, <1>3, LoadedFacts DEF Work, Right, Blank
  <1>6. Decide(s, work)
    BY <1>2, <1>3 DEF SetOpen
  <1>7. QED
    BY <1>1, <1>4, <1>5, <1>6, Decides

LEMMA PlaceKept ==
    ASSUME RestaurantInv, NEW s \in Sessions, PlaceOrder(s)
    PROVE  RestaurantInv'
  <1>1. Loaded(s) /\ isOpen[sess[s].restaurant]
    BY DEF PlaceOrder
  <1>2. PICK work : work = [sess[s] EXCEPT !.places = TRUE]
    OBVIOUS
  <1>3. work \in Work
    BY <1>1, <1>2, LoadedFacts DEF Work
  <1>4. Right(work)
    BY <1>1, <1>2, LoadedFacts
    DEF Work, Right, Blank, RestaurantInv, OpenWasReviewed, HasLeft
  <1>5. Decide(s, work)
    BY <1>2 DEF PlaceOrder
  <1>6. QED
    BY <1>1, <1>3, <1>4, <1>5, Decides

\* The documents are complete for all who see that they are; the request that
\* looked is going to submit.
LEMMA CheckKept ==
    ASSUME RestaurantInv, NEW s \in Sessions, CheckDocuments(s)
    PROVE  RestaurantInv'
  <1> DEFINE r == sess[s].restaurant
  <1>1. /\ sess[s] \in Work /\ r \in Restaurants /\ sess[s].at = "check"
        /\ SessionRight(sess[s])
    BY BusyWorks DEF CheckDocuments, RestaurantInv, SessionsRight, Busy
  <1>2. Right(sess[s]) /\ Blank(sess[s]) /\ \A d \in Docs : sess[s].docs[d] = Same
    BY <1>1 DEF SessionRight, Blank, Keep
  <1>3. faults \in 0..MaxFaults
    BY DEF RestaurantInv, TypeOK
  <1>4. CASE CanSubmit(r) /\ sess[s].seen \in {"PENDING_DOCS", "DOCS_REJECTED"}
    <2>1. PICK w : w = [sess[s] EXCEPT !.status = "DOCS_SUBMITTED", !.at = "commit",
                                       !.seen = "PENDING_DOCS"]
      OBVIOUS
    <2>2. w \in Work
      BY <1>1, <2>1 DEF Work, Status
    <2>3. SessionRight(w)
      BY <1>1, <1>2, <2>1 DEF Work, SessionRight, Right, Blank, Same
    <2>4. \A q \in Restaurants : Awaited(sess[s], q) => Awaited(w, q)
      BY <1>1, <2>1, <2>2, WorkIsNotIdle DEF Awaited, Work, Same
    <2>5. Decide(s, [sess[s] EXCEPT !.status = "DOCS_SUBMITTED"])
      BY <1>4 DEF CheckDocuments
    <2>6. [[sess[s] EXCEPT !.status = "DOCS_SUBMITTED"] EXCEPT !.at = "commit",
              !.seen = IF [sess[s] EXCEPT !.status = "DOCS_SUBMITTED"].next = "end"
                       THEN "PENDING_DOCS" ELSE @] = w
      BY <1>1, <1>2, <2>1 DEF Work, Blank
    <2>7. sess' = [sess EXCEPT ![s] = w] /\ UNCHANGED <<rows, kinds>> /\ faults' = faults
      BY <2>5, <2>6 DEF Decide
    <2>8. QED
      BY <1>3, <2>2, <2>3, <2>4, <2>7, SessionMoves
  <1>5. CASE ~(CanSubmit(r) /\ sess[s].seen \in {"PENDING_DOCS", "DOCS_REJECTED"})
    <2>1. sess' = [sess EXCEPT ![s] = Idle] /\ UNCHANGED <<rows, kinds>> /\ faults' = faults
      BY <1>5 DEF CheckDocuments
    <2>2. \A q \in Restaurants :
             CanSubmit(q) /\ ~HasLeft(q) => ~Awaited(sess[s], q)
      BY <1>2, <1>5 DEF Awaited, Right
    <2>3. QED
      BY <1>3, <2>1, <2>2, SessionMoves
  <1>6. QED
    BY <1>4, <1>5

LEMMA FinishKept ==
    ASSUME RestaurantInv, NEW r \in Restaurants, FinishOrder(r)
    PROVE  RestaurantInv'
  <1> USE DEF kinds
  <1>1. TypeOK'
    BY RestaurantAssumption DEF RestaurantInv, TypeOK, FinishOrder
  <1>2. SessionsRight'
    <2> SUFFICES ASSUME NEW t \in Sessions, Busy(t)' PROVE SessionRight(sess[t])'
      BY DEF SessionsRight
    <2>1. PICK v \in Work : v = sess[t] /\ v = sess'[t]
      BY BusyWorks DEF RestaurantInv, Busy, FinishOrder
    <2>2. SessionRight(v)
      BY <2>1 DEF RestaurantInv, SessionsRight, Busy, FinishOrder
    <2>3. SessionRight(v)'
      BY <2>2, RightStays DEF HasLeft, FinishOrder
    <2>4. QED
      BY <2>1, <2>3
  <1>3. OpenWasReviewed'
    BY DEF RestaurantInv, TypeOK, OpenWasReviewed, FinishOrder
  <1>4. UploadsAwaited'
    BY DEF RestaurantInv, UploadsAwaited, FinishOrder, Awaited, CanSubmit,
           MissingRequired, Uploaded, HasLeft
  <1>5. QED
    BY <1>1, <1>2, <1>3, <1>4 DEF RestaurantInv

\* A commit takes nothing back.
LEMMA CommitFacts ==
    ASSUME RestaurantInv, NEW s \in Sessions, Commit(s),
           NEW w \in Work, w = sess[s], NEW r \in Restaurants, r = w.restaurant
    PROVE  /\ w.at = "commit" /\ Right(w)
           /\ TypeOK'
           /\ \A q \in Restaurants : /\ profile[q] => profile'[q]
                                     /\ HasLeft(q) => HasLeft(q)'
           /\ w.status # Same => HasLeft(r)'
           /\ \A t \in Sessions : t # s => sess'[t] = sess[t]
           /\ sess'[s] = AfterCommit(w)
           /\ sess'[s] = Idle \/ (sess'[s] \in Work /\ SessionRight(sess[s])')
  <1>1. w.at = "commit" /\ Right(w) /\ r \in Restaurants
    BY DEF Commit, RestaurantInv, SessionsRight, Busy, SessionRight
  <1>3. /\ profile' = [profile EXCEPT ![r] = @ \/ w.creates]
        /\ docs' = [docs EXCEPT ![r] =
              [d \in Docs |-> IF w.docs[d] = Same THEN @[d] ELSE w.docs[d]]]
        /\ status' = [status EXCEPT ![r] = IF w.status = Same THEN @ ELSE w.status]
        /\ isOpen' = [isOpen EXCEPT ![r] =
              IF w.open = Same THEN @ ELSE w.open = "TRUE"]
        /\ w.places => active[r] < MaxOrders
        /\ active' = [active EXCEPT ![r] = IF w.places THEN @ + 1 ELSE @]
        /\ sess' = [sess EXCEPT ![s] = AfterCommit(w)]
        /\ faults' = faults /\ orderly' = orderly /\ app' = app
    BY DEF Commit, kinds
  <1>4. /\ w.creates \in BOOLEAN /\ w.places \in BOOLEAN
        /\ w.docs \in [Docs -> DocStatus \cup {Same}]
        /\ w.status \in Status \cup {Same} /\ w.open \in {"TRUE", "FALSE", Same}
        /\ w.next \in {"end", "check", "submit"} /\ w.seen \in Status
        /\ w.restaurant = r /\ Right(w)
    BY <1>1 DEF Work
  <1>5. profile' \in [Restaurants -> BOOLEAN]
    BY <1>1, <1>3, <1>4 DEF RestaurantInv, TypeOK
  <1>6. docs' \in [Restaurants -> [Docs -> DocStatus \cup {Missing}]]
    <2>1. PICK new \in [Docs -> DocStatus \cup {Missing}] :
             new = [d \in Docs |-> IF w.docs[d] = Same THEN docs[r][d] ELSE w.docs[d]]
      BY <1>1, <1>4 DEF RestaurantInv, TypeOK
    <2>2. docs' = [docs EXCEPT ![r] = new]
      BY <1>3, <2>1
    <2>3. QED
      BY <2>2 DEF RestaurantInv, TypeOK
  <1>7. status' \in [Restaurants -> Status]
    BY <1>1, <1>3, <1>4 DEF RestaurantInv, TypeOK
  <1>8. isOpen' \in [Restaurants -> BOOLEAN]
    BY <1>1, <1>3, <1>4 DEF RestaurantInv, TypeOK
  <1>9. active' \in [Restaurants -> 0..MaxOrders]
    BY <1>1, <1>3, <1>4, RestaurantAssumption DEF RestaurantInv, TypeOK
  <1>10. /\ profile[r] => profile'[r]
         /\ \A q \in Restaurants : profile[q] => profile'[q]
    BY <1>1, <1>3, <1>4 DEF RestaurantInv, TypeOK
  <1>11. /\ \A q \in Restaurants : HasLeft(q) => HasLeft(q)'
         /\ w.status # Same => HasLeft(r)'
    <2>1. \A q \in Restaurants :
             status'[q] = IF q = r /\ w.status # Same THEN w.status ELSE status[q]
      BY <1>3 DEF RestaurantInv, TypeOK
    <2>2. w.status # "PENDING_DOCS"
      BY <1>1 DEF Right
    <2>3. QED
      BY <2>1, <2>2 DEF HasLeft
  <1>12. \/ AfterCommit(w) = Idle
         \/ AfterCommit(w) \in Work /\ SessionRight(AfterCommit(w))'
    <2>1. CASE w.next = "end"
      <3>1. AfterCommit(w) = Idle
        BY <2>1 DEF AfterCommit, Idle
      <3>2. QED
        BY <3>1
    <2>2. CASE w.next = "check"
      <3>1. PICK v : v = [w EXCEPT !.at = "check", !.docs = Keep, !.inserts = {}, !.next = "end"]
        OBVIOUS
      <3>2. AfterCommit(w) = v
        BY <2>2, <3>1 DEF AfterCommit
      <3>3. v \in Work
        BY <3>1 DEF Work, Keep
      <3>4. SessionRight(v)
        BY <1>4, <2>2, <3>1 DEF SessionRight, Right, Blank, Work, Keep
      <3>5. v.restaurant = r
        BY <1>4, <3>1 DEF Work
      <3>6. SessionRight(v)'
        BY <1>1, <1>3, <1>10, <1>11, <3>3, <3>4, <3>5, RightStays
      <3>7. QED
        BY <3>2, <3>3, <3>6
    <2>3. CASE w.next = "submit"
      <3>1. PICK st \in Status \cup {Same} :
               /\ st = Write(w.seen, "DOCS_SUBMITTED") /\ st # "PENDING_DOCS"
               /\ st = Same => w.seen # "PENDING_DOCS"
        BY DEF Write, Status, Same
      <3>2. PICK v : v = [w EXCEPT !.creates = FALSE, !.next = "end",
                                   !.seen = "PENDING_DOCS", !.status = st]
        OBVIOUS
      <3>3. AfterCommit(w) = v
        BY <2>3, <3>1, <3>2 DEF AfterCommit
      <3>4. v \in Work
        BY <3>2 DEF Work, Status
      <3>5. Right(v)
        BY <1>4, <3>1, <3>2 DEF Right, Work
      <3>6. v.at = "commit" /\ v.restaurant = r
        BY <1>1, <1>4, <3>2 DEF Work
      <3>7. SessionRight(v)
        BY <3>5, <3>6 DEF SessionRight
      <3>8. SessionRight(v)'
        BY <1>1, <1>3, <1>10, <1>11, <3>4, <3>6, <3>7, RightStays
      <3>9. QED
        BY <3>3, <3>4, <3>8
    <2>4. QED
      BY <1>4, <2>1, <2>2, <2>3
  <1>13. /\ \A t \in Sessions : t # s => sess'[t] = sess[t]
         /\ sess'[s] = AfterCommit(w)
         /\ sess' \in [Sessions -> Work \cup {Idle}]
    BY <1>3, <1>12 DEF RestaurantInv, TypeOK
  <1>14. TypeOK'
    BY <1>3, <1>5, <1>6, <1>7, <1>8, <1>9, <1>13 DEF RestaurantInv, TypeOK
  <1>15. sess'[s] = Idle \/ (sess'[s] \in Work /\ SessionRight(sess[s])')
    BY <1>12, <1>13
  <1>16. QED
    BY <1>1, <1>10, <1>11, <1>13, <1>14, <1>15

LEMMA CommitKept ==
    ASSUME RestaurantInv, NEW s \in Sessions, Commit(s)
    PROVE  RestaurantInv'
  <1>w. PICK w \in Work, r \in Restaurants : w = sess[s] /\ r = w.restaurant
    BY BusyWorks DEF Commit, RestaurantInv
  <1>f. /\ w.at = "commit" /\ Right(w)
        /\ TypeOK'
        /\ \A q \in Restaurants : /\ profile[q] => profile'[q]
                                  /\ HasLeft(q) => HasLeft(q)'
        /\ w.status # Same => HasLeft(r)'
        /\ \A t \in Sessions : t # s => sess'[t] = sess[t]
        /\ sess'[s] = AfterCommit(w)
        /\ sess'[s] = Idle \/ (sess'[s] \in Work /\ SessionRight(sess[s])')
    BY <1>w, CommitFacts
  <1>1. app' = app /\ faults' = faults /\ Right(w) /\ TypeOK'
    BY <1>f DEF Commit, kinds
  <1>2. SessionsRight'
    <2> SUFFICES ASSUME NEW t \in Sessions, Busy(t)' PROVE SessionRight(sess[t])'
      BY DEF SessionsRight
    <2>1. CASE t = s
      BY <2>1, <1>f DEF Busy
    <2>2. CASE t # s
      <3>1. sess'[t] = sess[t]
        BY <2>2, <1>f
      <3>2. PICK v \in Work : v = sess[t] /\ v = sess'[t]
        BY <3>1, BusyWorks DEF RestaurantInv, Busy
      <3>3. SessionRight(v) /\ v.restaurant \in Restaurants
        BY <3>1, <3>2 DEF RestaurantInv, SessionsRight, Busy, Work
      <3>4. SessionRight(v)'
        BY <1>1, <1>f, <3>3, RightStays DEF HasLeft
      <3>5. QED
        BY <3>2, <3>4
    <2>3. QED
      BY <2>1, <2>2
  <1>3. OpenWasReviewed'
    <2> SUFFICES ASSUME NEW q \in Restaurants \ app, isOpen'[q] \/ active'[q] > 0
                 PROVE  profile'[q] /\ HasLeft(q)'
      BY <1>1 DEF OpenWasReviewed, HasLeft
    <2>1. CASE isOpen[q] \/ active[q] > 0
      <3>1. profile[q] /\ HasLeft(q)
        BY <1>1, <2>1 DEF RestaurantInv, OpenWasReviewed, HasLeft
      <3>2. QED
        BY <3>1, <1>f DEF HasLeft
    <2>2. CASE ~(isOpen[q] \/ active[q] > 0)
      <3>1. q = r
        BY <1>w, <2>2 DEF Commit, RestaurantInv, TypeOK
      <3>2. w.open = "TRUE" \/ w.places
        <4>1. /\ isOpen' = [isOpen EXCEPT ![r] = IF w.open = Same THEN @ ELSE w.open = "TRUE"]
              /\ active' = [active EXCEPT ![r] = IF w.places THEN @ + 1 ELSE @]
          BY <1>w DEF Commit
        <4>2. isOpen'[r] => isOpen[r] \/ w.open = "TRUE"
          BY <4>1 DEF RestaurantInv, TypeOK
        <4>3. ~w.places => active'[r] = active[r]
          BY <4>1 DEF RestaurantInv, TypeOK
        <4>4. QED
          BY <2>2, <3>1, <4>2, <4>3
      <3>3. profile[r] /\ (w.status # Same \/ HasLeft(r))
        BY <1>w, <1>1, <3>1, <3>2 DEF Right
      <3>4. QED
        BY <3>1, <3>3, <1>f DEF HasLeft
    <2>3. QED
      BY <2>1, <2>2
  <1>4. UploadsAwaited'
    <2> SUFFICES ASSUME faults' = 0, NEW q \in Restaurants,
                        CanSubmit(q)', ~HasLeft(q)'
                 PROVE  \E t \in Sessions : Awaited(sess'[t], q)
      BY DEF UploadsAwaited, Awaited
    <2>1. ~HasLeft(q) /\ faults = 0
      BY <1>1, <1>f DEF HasLeft
    <2>2. q = r => w.status = Same
      BY <1>f
    <2>3. CASE CanSubmit(q)
      <3>1. PICK t \in Sessions : Awaited(sess[t], q)
        BY <2>1, <2>3 DEF RestaurantInv, UploadsAwaited
      <3>2. t # s
        BY <1>w, <1>f, <2>2, <3>1 DEF Awaited
      <3>3. QED
        BY <3>1, <3>2, <1>f
    <2>4. CASE ~CanSubmit(q)
      <3>1. docs'[q] # docs[q]
        BY <2>4 DEF CanSubmit, MissingRequired, Uploaded
      <3>2. q = r /\ \E d \in Docs : w.docs[d] # Same
        <4>1. docs' = [docs EXCEPT ![r] =
                [d \in Docs |-> IF w.docs[d] = Same THEN docs[r][d] ELSE w.docs[d]]]
          BY <1>w DEF Commit
        <4>2. docs \in [Restaurants -> [Docs -> DocStatus \cup {Missing}]]
          BY DEF RestaurantInv, TypeOK
        <4>3. q = r
          BY <3>1, <4>1, <4>2
        <4>4. docs'[r] = [d \in Docs |-> IF w.docs[d] = Same THEN docs[r][d] ELSE w.docs[d]]
          BY <4>1, <4>2
        <4>5. docs[r] = [d \in Docs |-> docs[r][d]]
          BY <4>2
        <4>6. QED
          BY <3>1, <4>3, <4>4, <4>5
      <3>3. w.next = "check" /\ ~w.creates
        BY <1>w, <1>1, <2>1, <2>2, <3>2 DEF Right
      <3>4. PICK v : v = [w EXCEPT !.at = "check", !.docs = Keep, !.inserts = {}, !.next = "end"]
        OBVIOUS
      <3>5. AfterCommit(w) = v
        BY <3>3, <3>4 DEF AfterCommit
      <3>6. v \in Work
        BY <3>4 DEF Work, Keep
      <3>7. /\ v.restaurant = w.restaurant /\ v.at = "check" /\ v.inserts = {}
            /\ v.creates = w.creates
        BY <3>4 DEF Work
      <3>8. v # Idle
        BY <3>6, WorkIsNotIdle
      <3>9. Awaited(v, q)
        BY <1>w, <3>2, <3>3, <3>7, <3>8 DEF Awaited
      <3>10. QED
        BY <1>f, <3>5, <3>9
    <2>5. QED
      BY <2>3, <2>4
  <1>5. QED
    BY <1>1, <1>2, <1>3, <1>4 DEF RestaurantInv

LEMMA NextKept ==
    ASSUME RestaurantInv, [Next]_vars
    PROVE  RestaurantInv'
  <1>1. CASE UNCHANGED vars
    <2> USE <1>1 DEF vars, rows, kinds
    <2>1. TypeOK' /\ OpenWasReviewed'
      BY DEF RestaurantInv, TypeOK, OpenWasReviewed
    <2>2. SessionsRight'
      BY DEF RestaurantInv, SessionsRight, Busy, SessionRight, Right, Blank, HasLeft
    <2>3. UploadsAwaited'
      BY DEF RestaurantInv, UploadsAwaited, CanSubmit, MissingRequired, Uploaded,
             Awaited, HasLeft
    <2>4. QED
      BY <2>1, <2>2, <2>3 DEF RestaurantInv
  <1>2. ASSUME NEW s \in Sessions, Handler(s)
        PROVE  RestaurantInv'
    BY <1>2, SetupKept, CreateKept, UploadKept, RejectKept, CheckKept, SubmitKept,
       ApproveKept, UpdateStatusKept, SetOpenKept, PlaceKept
    DEF Handler, ToggleOpen, OnlineStatus
  <1>3. CASE Next
    BY <1>2, <1>3, RequestKept, CommitKept, RefuseKept, ConflictKept, FailKept, FinishKept
    DEF Next
  <1>4. QED
    BY <1>1, <1>3

-----------------------------------------------------------------------------
(* Restaurants on which requests do not overlap *)

\* What the review promises of a status and the documents beside it.
Reviewed(st, ds) ==
    /\ st = "DOCS_SUBMITTED" => \A d \in Required : ds[d] \in {"PENDING", "APPROVED"}
    /\ st = "DOCS_APPROVED" => \A d \in Docs : ds[d] # "REJECTED"

\* The rows as the request's commit will leave them.
LeftDocs(w) ==
    [d \in Docs |-> IF w.docs[d] = Same THEN docs[w.restaurant][d] ELSE w.docs[d]]
LeftStatus(w) == IF w.status = Same THEN status[w.restaurant] ELSE w.status

\* What a request that nobody overlaps is going to do.
Plans(w) ==
    /\ Reviewed(LeftStatus(w), LeftDocs(w))
    /\ w.open = "FALSE" => active[w.restaurant] = 0
    /\ w.next # "submit"
    /\ w.next = "check" => w.open = Same

\* What it has loaded is still so, until it has decided for the last time.
Ordered(w) ==
    /\ w.at = "commit" => Plans(w)
    /\ w.at # "commit" \/ w.next = "check" =>
         w.seen = status[w.restaurant] /\ w.open = Same

Orderly == orderly \ app

OrderlyInv ==
    /\ \A r \in Orderly : Reviewed(status[r], docs[r])
    /\ \A s \in Sessions : Busy(s) /\ sess[s].restaurant \in Orderly =>
          /\ Ordered(sess[s])
          /\ \A t \in Sessions \ {s} : Busy(t) => sess[t].restaurant # sess[s].restaurant

LEMMA InitOrderly == Init => OrderlyInv
  BY DEF Init, OrderlyInv, Reviewed, Missing, Busy, Orderly

\* The rows of a restaurant stay, and with them what its request plans.
LEMMA OrderedStays ==
    ASSUME NEW w, Ordered(w),
           docs'[w.restaurant] = docs[w.restaurant],
           status'[w.restaurant] = status[w.restaurant],
           active'[w.restaurant] = active[w.restaurant] \/ active[w.restaurant] # 0
             \/ active'[w.restaurant] = 0
    PROVE  Ordered(w)'
  BY DEF Ordered, Plans, Reviewed, LeftDocs, LeftStatus

\* A session moves on and no row changes.
LEMMA OrderlyMoves ==
    ASSUME RestaurantInv, OrderlyInv, NEW s \in Sessions, NEW w \in Work \cup {Idle},
           sess' = [sess EXCEPT ![s] = w], UNCHANGED <<rows, kinds>>,
           w # Idle /\ w.restaurant \in Orderly =>
              /\ Ordered(w)
              /\ \/ Busy(s) /\ sess[s].restaurant = w.restaurant
                 \/ Untouched(w.restaurant)
    PROVE  OrderlyInv'
  <1> USE DEF rows, kinds
  <1>1. \A t \in Sessions : sess'[t] = IF t = s THEN w ELSE sess[t]
    BY DEF RestaurantInv, TypeOK
  <1>2. Orderly' = Orderly
    BY DEF Orderly
  <1>3. \A r \in Orderly' : Reviewed(status[r], docs[r])'
    BY <1>2 DEF OrderlyInv, Reviewed
  <1>4. ASSUME NEW t \in Sessions, Busy(t)', sess'[t].restaurant \in Orderly
        PROVE  /\ Ordered(sess[t])'
               /\ \A u \in Sessions \ {t} : Busy(u)' => sess'[u].restaurant # sess'[t].restaurant
    <2>1. PICK v : v = sess'[t]
      OBVIOUS
    <2>2. CASE t = s
      <3>1. v = w /\ w # Idle /\ w.restaurant \in Orderly
        BY <1>1, <1>4, <2>1, <2>2 DEF Busy
      <3>2. Ordered(v)'
        BY <3>1, OrderedStays
      <3>3. \A u \in Sessions \ {t} : Busy(u)' => sess'[u].restaurant # v.restaurant
        <4>1. CASE Busy(s) /\ sess[s].restaurant = w.restaurant
          BY <1>1, <2>2, <3>1, <4>1 DEF OrderlyInv, Busy
        <4>2. CASE Untouched(w.restaurant)
          BY <1>1, <2>2, <3>1, <4>2 DEF Untouched, Busy
        <4>3. QED
          BY <3>1, <4>1, <4>2
      <3>4. QED
        BY <2>1, <3>2, <3>3
    <2>3. CASE t # s
      <3>1. v = sess[t] /\ Busy(t) /\ v.restaurant \in Orderly
        BY <1>1, <1>4, <2>1, <2>3 DEF Busy
      <3>2. Ordered(v)
        BY <3>1 DEF OrderlyInv
      <3>3. Ordered(v)'
        BY <3>2, OrderedStays
      <3>4. \A u \in Sessions \ {t} : Busy(u)' => sess'[u].restaurant # v.restaurant
        <4> SUFFICES ASSUME NEW u \in Sessions \ {t}, Busy(u)'
                     PROVE  sess'[u].restaurant # v.restaurant
          OBVIOUS
        <4>1. CASE u = s
          <5>1. w # Idle /\ sess'[u] = w
            BY <1>1, <4>1 DEF Busy
          <5>2. CASE w.restaurant \in Orderly
            <6>1. CASE Busy(s) /\ sess[s].restaurant = w.restaurant
              BY <2>3, <3>1, <5>1, <6>1 DEF OrderlyInv
            <6>2. CASE Untouched(w.restaurant)
              BY <3>1, <5>1, <6>2 DEF Untouched
            <6>3. QED
              BY <5>1, <5>2, <6>1, <6>2
          <5>3. CASE w.restaurant \notin Orderly
            BY <3>1, <5>1, <5>3
          <5>4. QED
            BY <5>2, <5>3
        <4>2. CASE u # s
          BY <1>1, <3>1, <4>2 DEF OrderlyInv, Busy
        <4>3. QED
          BY <4>1, <4>2
      <3>5. QED
        BY <2>1, <3>3, <3>4
    <2>4. QED
      BY <2>2, <2>3
  <1>5. QED
    BY <1>2, <1>3, <1>4 DEF OrderlyInv

\* What the request has loaded is so.
LEMMA LoadedOrderly ==
    ASSUME RestaurantInv, OrderlyInv, NEW s \in Sessions, Loaded(s),
           sess[s].restaurant \in Orderly
    PROVE  /\ sess[s].seen = status[sess[s].restaurant]
           /\ Reviewed(sess[s].seen, docs[sess[s].restaurant])
           /\ docs[sess[s].restaurant] \in [Docs -> DocStatus \cup {Missing}]
  <1>1. sess[s].seen = status[sess[s].restaurant]
    BY DEF OrderlyInv, Ordered, Loaded
  <1>2. QED
    BY <1>1, LoadedFacts DEF OrderlyInv, RestaurantInv, TypeOK

\* A request decides: what it plans is in order.
LEMMA OrderlyDecides ==
    ASSUME RestaurantInv, OrderlyInv, NEW s \in Sessions, Loaded(s),
           NEW work \in Work, work.restaurant = sess[s].restaurant,
           work.restaurant \in Orderly => Plans(work) /\ work.seen = sess[s].seen,
           Decide(s, work)
    PROVE  OrderlyInv'
  <1>1. PICK w \in Work : /\ w = [work EXCEPT !.at = "commit",
                                   !.seen = IF work.next = "end" THEN "PENDING_DOCS" ELSE @]
    BY DEF Work, Status
  <1>2. /\ w.restaurant = work.restaurant /\ w.docs = work.docs /\ w.status = work.status
        /\ w.open = work.open /\ w.next = work.next /\ w.at = "commit"
        /\ w.next # "end" => w.seen = work.seen
    BY <1>1 DEF Work
  <1>3. w.restaurant \in Orderly => Ordered(w)
    BY <1>2, LoadedOrderly DEF Ordered, Plans, Reviewed, LeftDocs, LeftStatus
  <1>4. sess' = [sess EXCEPT ![s] = w] /\ UNCHANGED <<rows, kinds>>
    BY <1>1 DEF Decide
  <1>5. Busy(s)
    BY DEF Loaded
  <1>6. QED
    BY <1>2, <1>3, <1>4, <1>5, OrderlyMoves

\* A request that leaves the documents and the status alone.
LEMMA PlansNothing ==
    ASSUME RestaurantInv, OrderlyInv, NEW s \in Sessions, Loaded(s),
           sess[s].restaurant \in Orderly,
           NEW work, work.restaurant = sess[s].restaurant,
           \A d \in Docs : work.docs[d] = Same, work.status = Same,
           work.open = "FALSE" => active[work.restaurant] = 0,
           work.next = "end"
    PROVE  Plans(work)
  <1>1. Reviewed(status[work.restaurant], docs[work.restaurant])
    BY LoadedOrderly
  <1>2. \A d \in Docs : LeftDocs(work)[d] = docs[work.restaurant][d]
    BY DEF LeftDocs
  <1>3. QED
    BY <1>1, <1>2, RestaurantAssumption DEF Plans, Reviewed, LeftStatus

LEMMA RequestOrderly ==
    ASSUME RestaurantInv, OrderlyInv, NEW s \in Sessions, NEW r \in Restaurants,
           Request(s, r)
    PROVE  OrderlyInv'
  <1> DEFINE w == [restaurant |-> r, at |-> "loaded", seen |-> status[r],
                   docs |-> Keep, inserts |-> {}, status |-> Same, open |-> Same,
                   creates |-> FALSE, places |-> FALSE, next |-> "end"]
  <1>1. status[r] \in Status
    BY DEF RestaurantInv, TypeOK
  <1>2. w \in Work
    BY <1>1 DEF Work, Keep
  <1>3. Ordered(w)
    BY DEF Ordered
  <1>4. w.restaurant \in Orderly => Untouched(w.restaurant)
    BY DEF Request, Orderly
  <1>5. sess' = [sess EXCEPT ![s] = w] /\ UNCHANGED <<rows, kinds>>
    BY DEF Request
  <1> HIDE DEF w
  <1>6. QED
    BY <1>2, <1>3, <1>4, <1>5, OrderlyMoves

\* A request that ends without a commit leaves everything as it is.
LEMMA EndOrderly ==
    ASSUME RestaurantInv, OrderlyInv, NEW s \in Sessions,
           Refuse(s) \/ Conflict(s) \/ Fail(s)
    PROVE  OrderlyInv'
  <1>1. sess' = [sess EXCEPT ![s] = Idle] /\ UNCHANGED <<rows, kinds>>
    BY DEF Refuse, Conflict, Fail
  <1>2. QED
    BY <1>1, OrderlyMoves

LEMMA SetupOrderly ==
    ASSUME RestaurantInv, OrderlyInv, NEW s \in Sessions,
           SetupRestaurant(s) \/ CreateRestaurant(s)
    PROVE  OrderlyInv'
  <1>1. Loaded(s)
    BY DEF SetupRestaurant, CreateRestaurant
  <1>2. CASE SetupRestaurant(s)
    <2>1. PICK work : work = [sess[s] EXCEPT !.creates = TRUE]
      OBVIOUS
    <2>2. /\ work \in Work /\ work.restaurant = sess[s].restaurant
          /\ work.docs = sess[s].docs /\ work.status = Same /\ work.open = Same
          /\ work.next = "end" /\ work.seen = sess[s].seen
      BY <1>1, <2>1, LoadedFacts DEF Work, Blank
    <2>3. work.restaurant \in Orderly => Plans(work)
      BY <1>1, <2>2, LoadedFacts, PlansNothing DEF Same
    <2>4. Decide(s, work)
      BY <1>2, <2>1 DEF SetupRestaurant
    <2>5. QED
      BY <1>1, <2>2, <2>3, <2>4, OrderlyDecides
  <1>3. CASE CreateRestaurant(s)
    <2>1. PICK work : work = [sess[s] EXCEPT !.creates = TRUE, !.next = "submit"]
      OBVIOUS
    <2>2. work \in Work /\ work.restaurant = sess[s].restaurant
      BY <1>1, <2>1, LoadedFacts DEF Work
    <2>3. work.restaurant \notin Orderly
      BY <1>3, <2>2 DEF CreateRestaurant, Orderly
    <2>4. Decide(s, work)
      BY <1>3, <2>1 DEF CreateRestaurant
    <2>5. QED
      BY <1>1, <2>2, <2>3, <2>4, OrderlyDecides
  <1>4. QED
    BY <1>2, <1>3

LEMMA UploadOrderly ==
    ASSUME RestaurantInv, OrderlyInv, NEW s \in Sessions, NEW d \in Docs,
           UploadDocument(s, d)
    PROVE  OrderlyInv'
  <1> DEFINE r == sess[s].restaurant
  <1>1. Loaded(s)
    BY DEF UploadDocument
  <1>2. PICK new \in {"PENDING", Same} : new = Write(docs[r][d], "PENDING")
    BY DEF Write
  <1>3. PICK rs \in SUBSET Docs : rs = IF docs[r][d] = Missing THEN {d} ELSE {}
    OBVIOUS
  <1>4. PICK work : work = [sess[s] EXCEPT !.docs[d] = new, !.inserts = rs, !.next = "check"]
    OBVIOUS
  <1>5. /\ work \in Work /\ work.restaurant = r /\ work.seen = sess[s].seen
        /\ work.status = Same /\ work.open = Same /\ work.next = "check"
        /\ \A e \in Docs : work.docs[e] = IF e = d THEN new ELSE Same
    BY <1>1, <1>2, <1>4, LoadedFacts DEF Work, Blank, DocStatus
  <1>6. ASSUME r \in Orderly PROVE Plans(work)
    <2>1. Reviewed(status[r], docs[r])
      BY <1>1, <1>6, LoadedOrderly
    <2>2. \A e \in Docs : LeftDocs(work)[e] \in {docs[r][e], "PENDING"}
      BY <1>2, <1>5 DEF LeftDocs
    <2>3. Reviewed(status[r], LeftDocs(work))
      BY <2>1, <2>2, RestaurantAssumption DEF Reviewed
    <2>4. QED
      BY <1>5, <2>3 DEF Plans, LeftStatus, Same
  <1>7. Decide(s, work)
    BY <1>2, <1>3, <1>4 DEF UploadDocument
  <1>8. QED
    BY <1>1, <1>5, <1>6, <1>7, OrderlyDecides

LEMMA RejectOrderly ==
    ASSUME RestaurantInv, OrderlyInv, NEW s \in Sessions, NEW d \in Docs,
           RejectDocument(s, d)
    PROVE  OrderlyInv'
  <1> DEFINE r == sess[s].restaurant
  <1>1. Loaded(s)
    BY DEF RejectDocument
  <1>2. PICK new \in DocStatus \cup {Same} :
           new = IF docs[r][d] = Missing THEN Same ELSE Write(docs[r][d], "REJECTED")
    BY DEF Write, DocStatus
  <1>3. PICK st \in Status \cup {Same} :
           /\ st = Write(sess[s].seen, "DOCS_REJECTED")
           /\ st \in {Same, "DOCS_REJECTED"}
           /\ st = Same => sess[s].seen = "DOCS_REJECTED"
    BY DEF Write, Status, Same
  <1>4. PICK work : work = [sess[s] EXCEPT !.docs[d] = new, !.status = st]
    OBVIOUS
  <1>5. /\ work \in Work /\ work.restaurant = r /\ work.seen = sess[s].seen
        /\ work.status = st /\ work.open = Same /\ work.next = "end"
    BY <1>1, <1>2, <1>4, LoadedFacts DEF Work, Blank
  <1>6. ASSUME r \in Orderly PROVE Plans(work)
    <2>1. LeftStatus(work) = "DOCS_REJECTED"
      BY <1>1, <1>3, <1>5, <1>6, LoadedOrderly DEF LeftStatus, Same
    <2>2. QED
      BY <1>5, <2>1 DEF Plans, Reviewed, Same
  <1>7. Decide(s, work)
    BY <1>2, <1>3, <1>4 DEF RejectDocument
  <1>8. QED
    BY <1>1, <1>5, <1>6, <1>7, OrderlyDecides

LEMMA SubmitOrderly ==
    ASSUME RestaurantInv, OrderlyInv, NEW s \in Sessions, SubmitDocuments(s)
    PROVE  OrderlyInv'
  <1> DEFINE r == sess[s].restaurant
  <1>1. Loaded(s) /\ CanSubmit(r)
    BY DEF SubmitDocuments
  <1>2. PICK work : work = [sess[s] EXCEPT !.status = "DOCS_SUBMITTED"]
    OBVIOUS
  <1>3. /\ work \in Work /\ work.restaurant = r /\ work.seen = sess[s].seen
        /\ work.status = "DOCS_SUBMITTED" /\ work.open = Same /\ work.next = "end"
        /\ \A e \in Docs : work.docs[e] = Same
    BY <1>1, <1>2, LoadedFacts DEF Work, Blank, Status
  <1>4. Plans(work)
    <2>1. \A e \in Docs : LeftDocs(work)[e] = docs[r][e]
      BY <1>3 DEF LeftDocs
    <2>2. \A e \in Required : docs[r][e] \in {"PENDING", "APPROVED"}
      BY <1>1 DEF CanSubmit, MissingRequired, Uploaded
    <2>3. QED
      BY <1>3, <2>1, <2>2, RestaurantAssumption DEF Plans, Reviewed, LeftStatus, Same
  <1>5. Decide(s, work)
    BY <1>2 DEF SubmitDocuments
  <1>6. QED
    BY <1>1, <1>3, <1>4, <1>5, OrderlyDecides

LEMMA ApproveOrderly ==
    ASSUME RestaurantInv, OrderlyInv, NEW s \in Sessions, ApproveRestaurant(s)
    PROVE  OrderlyInv'
  <1> DEFINE r == sess[s].restaurant
  <1>1. Loaded(s)
    BY DEF ApproveRestaurant
  <1>2. PICK new \in [Docs -> DocStatus \cup {Same}] :
           new = [d \in Docs |-> IF docs[r][d] = Missing THEN Same
                                 ELSE Write(docs[r][d], "APPROVED")]
    BY DEF Write, DocStatus
  <1>3. PICK st \in Status \cup {Same} :
           /\ st = Write(sess[s].seen, "DOCS_APPROVED")
           /\ st \in {Same, "DOCS_APPROVED"}
           /\ st = Same => sess[s].seen = "DOCS_APPROVED"
    BY DEF Write, Status, Same
  <1>4. PICK op \in {"TRUE", Same} : op = IF isOpen[r] THEN Same ELSE "TRUE"
    OBVIOUS
  <1>5. PICK work : work = [sess[s] EXCEPT !.docs = new, !.status = st, !.open = op]
    OBVIOUS
  <1>6. sess[s] \in Work /\ Blank(sess[s])
    BY <1>1, LoadedFacts
  <1>7. /\ work \in Work /\ work.restaurant = r /\ work.seen = sess[s].seen
        /\ work.docs = new
        /\ work.status = st /\ work.open = op /\ work.next = "end"
    BY <1>5, <1>6 DEF Work, Blank
  <1>8. ASSUME r \in Orderly PROVE Plans(work)
    <2>1. LeftStatus(work) = "DOCS_APPROVED"
      BY <1>1, <1>3, <1>7, <1>8, LoadedOrderly DEF LeftStatus, Same
    <2>2. \A e \in Docs : LeftDocs(work)[e] \in {"APPROVED", Missing}
      BY <1>2, <1>7 DEF LeftDocs, Write, Same
    <2>3. QED
      BY <1>4, <1>7, <2>1, <2>2 DEF Plans, Reviewed, Missing, Same
  <1>9. Decide(s, work)
    BY <1>2, <1>3, <1>4, <1>5 DEF ApproveRestaurant
  <1>10. QED
    BY <1>1, <1>7, <1>8, <1>9, OrderlyDecides

LEMMA UpdateStatusOrderly ==
    ASSUME RestaurantInv, OrderlyInv, NEW s \in Sessions, NEW live \in BOOLEAN,
           UpdateRestaurantStatus(s, live)
    PROVE  OrderlyInv'
  <1> DEFINE r == sess[s].restaurant
  <1>1. Loaded(s) /\ r \in app
    BY DEF UpdateRestaurantStatus
  <1>2. PICK st \in Status \cup {Same} :
           st = Write(sess[s].seen, IF live THEN "DOCS_APPROVED" ELSE "DOCS_REJECTED")
    BY DEF Write, Status
  <1>3. PICK op \in {"TRUE", "FALSE", Same} :
           op = IF isOpen[r] = live THEN Same ELSE IF live THEN "TRUE" ELSE "FALSE"
    OBVIOUS
  <1>4. PICK work : work = [sess[s] EXCEPT !.status = st, !.open = op]
    OBVIOUS
  <1>5. work \in Work /\ work.restaurant = r
    BY <1>1, <1>4, LoadedFacts DEF Work
  <1>6. work.restaurant \notin Orderly
    BY <1>1, <1>5 DEF Orderly
  <1>7. Decide(s, work)
    BY <1>2, <1>3, <1>4 DEF UpdateRestaurantStatus
  <1>8. QED
    BY <1>1, <1>5, <1>6, <1>7, OrderlyDecides

LEMMA SetOpenOrderly ==
    ASSUME RestaurantInv, OrderlyInv, NEW s \in Sessions, NEW b \in BOOLEAN, SetOpen(s, b)
    PROVE  OrderlyInv'
  <1> DEFINE r == sess[s].restaurant
  <1>1. Loaded(s) /\ (~b => active[r] = 0)
    BY DEF SetOpen
  <1>2. PICK op \in {"TRUE", "FALSE", Same} :
           op = IF isOpen[r] = b THEN Same ELSE IF b THEN "TRUE" ELSE "FALSE"
    OBVIOUS
  <1>3. PICK work : work = [sess[s] EXCEPT !.open = op]
    OBVIOUS
  <1>4. /\ work \in Work /\ work.restaurant = r /\ work.seen = sess[s].seen
        /\ work.status = Same /\ work.open = op /\ work.next = "end"
        /\ \A e \in Docs : work.docs[e] = Same
    BY <1>1, <1>3, LoadedFacts DEF Work, Blank
  <1>5. op = "FALSE" => active[r] = 0
    BY <1>1, <1>2 DEF Same
  <1>6. r \in Orderly => Plans(work)
    BY <1>1, <1>4, <1>5, PlansNothing
  <1>7. Decide(s, work)
    BY <1>2, <1>3 DEF SetOpen
  <1>8. QED
    BY <1>1, <1>4, <1>6, <1>7, OrderlyDecides

LEMMA PlaceOrderly ==
    ASSUME RestaurantInv, OrderlyInv, NEW s \in Sessions, PlaceOrder(s)
    PROVE  OrderlyInv'
  <1>1. Loaded(s)
    BY DEF PlaceOrder
  <1>2. PICK work : work = [sess[s] EXCEPT !.places = TRUE]
    OBVIOUS
  <1>3. /\ work \in Work /\ work.restaurant = sess[s].restaurant
        /\ work.seen = sess[s].seen
        /\ work.status = Same /\ work.open = Same /\ work.next = "end"
        /\ \A e \in Docs : work.docs[e] = Same
    BY <1>1, <1>2, LoadedFacts DEF Work, Blank
  <1>4. work.restaurant \in Orderly => Plans(work)
    BY <1>1, <1>3, PlansNothing DEF Same
  <1>5. Decide(s, work)
    BY <1>2 DEF PlaceOrder
  <1>6. QED
    BY <1>1, <1>3, <1>4, <1>5, OrderlyDecides

\* The second look submits documents that are complete.
LEMMA CheckOrderly ==
    ASSUME RestaurantInv, OrderlyInv, NEW s \in Sessions, CheckDocuments(s)
    PROVE  OrderlyInv'
  <1> DEFINE r == sess[s].restaurant
  <1>1. /\ sess[s] \in Work /\ r \in Restaurants /\ sess[s].at = "check"
        /\ SessionRight(sess[s]) /\ Busy(s)
    BY BusyWorks DEF CheckDocuments, RestaurantInv, SessionsRight, Busy
  <1>2. Blank(sess[s]) /\ \A d \in Docs : sess[s].docs[d] = Same
    BY <1>1 DEF SessionRight, Blank, Keep
  <1>3. CASE CanSubmit(r) /\ sess[s].seen \in {"PENDING_DOCS", "DOCS_REJECTED"}
    <2>1. PICK w : w = [sess[s] EXCEPT !.status = "DOCS_SUBMITTED", !.at = "commit",
                                       !.seen = "PENDING_DOCS"]
      OBVIOUS
    <2>2. /\ w \in Work /\ w.restaurant = r /\ w.open = sess[s].open /\ w.next = "end"
          /\ w.status = "DOCS_SUBMITTED" /\ \A d \in Docs : w.docs[d] = Same
      BY <1>1, <1>2, <2>1 DEF Work, Status, Blank
    <2>3. r \in Orderly => Ordered(w)
      <3>1. \A e \in Docs : LeftDocs(w)[e] = docs[r][e]
        BY <2>2 DEF LeftDocs
      <3>2. \A e \in Required : docs[r][e] \in {"PENDING", "APPROVED"}
        BY <1>3 DEF CanSubmit, MissingRequired, Uploaded
      <3>3. Reviewed(LeftStatus(w), LeftDocs(w))
        BY <2>2, <3>1, <3>2, RestaurantAssumption DEF Reviewed, LeftStatus, Same
      <3>4. ASSUME r \in Orderly PROVE sess[s].open = Same
        BY <1>1, <3>4 DEF OrderlyInv, Ordered
      <3>5. QED
        BY <2>1, <2>2, <3>3, <3>4 DEF Ordered, Plans, Work, Same
    <2>4. Decide(s, [sess[s] EXCEPT !.status = "DOCS_SUBMITTED"])
      BY <1>3 DEF CheckDocuments
    <2>5. [[sess[s] EXCEPT !.status = "DOCS_SUBMITTED"] EXCEPT !.at = "commit",
              !.seen = IF [sess[s] EXCEPT !.status = "DOCS_SUBMITTED"].next = "end"
                       THEN "PENDING_DOCS" ELSE @] = w
      BY <1>1, <1>2, <2>1 DEF Work, Blank
    <2>6. sess' = [sess EXCEPT ![s] = w] /\ UNCHANGED <<rows, kinds>>
      BY <2>4, <2>5 DEF Decide
    <2>7. QED
      BY <1>1, <2>2, <2>3, <2>6, OrderlyMoves
  <1>4. CASE ~(CanSubmit(r) /\ sess[s].seen \in {"PENDING_DOCS", "DOCS_REJECTED"})
    <2>1. sess' = [sess EXCEPT ![s] = Idle] /\ UNCHANGED <<rows, kinds>>
      BY <1>4 DEF CheckDocuments
    <2>2. QED
      BY <2>1, OrderlyMoves
  <1>5. QED
    BY <1>3, <1>4

\* The commit leaves the rows as it was planned.
LEMMA CommitOrderly ==
    ASSUME RestaurantInv, OrderlyInv, NEW s \in Sessions, Commit(s)
    PROVE  OrderlyInv'
  <1>w. PICK w \in Work, r \in Restaurants : w = sess[s] /\ r = w.restaurant
    BY BusyWorks DEF Commit, RestaurantInv
  <1>f. /\ w.at = "commit" /\ Right(w)
        /\ \A t \in Sessions : t # s => sess'[t] = sess[t]
        /\ sess'[s] = AfterCommit(w)
    BY <1>w, CommitFacts
  <1>1. /\ docs' = [docs EXCEPT ![r] =
              [d \in Docs |-> IF w.docs[d] = Same THEN @[d] ELSE w.docs[d]]]
        /\ status' = [status EXCEPT ![r] = IF w.status = Same THEN @ ELSE w.status]
        /\ active' = [active EXCEPT ![r] = IF w.places THEN @ + 1 ELSE @]
        /\ orderly' = orderly /\ app' = app /\ Busy(s)
    BY <1>w DEF Commit, kinds
  <1>2. \A q \in Restaurants \ {r} : /\ docs'[q] = docs[q] /\ status'[q] = status[q]
                                      /\ active'[q] = active[q]
    BY <1>1 DEF RestaurantInv, TypeOK
  <1>3. docs'[r] = LeftDocs(w) /\ status'[r] = LeftStatus(w)
    BY <1>w, <1>1 DEF RestaurantInv, TypeOK, LeftDocs, LeftStatus
  <1>4. r \in Orderly => Ordered(w) /\ Plans(w)
    BY <1>w, <1>f, <1>1 DEF OrderlyInv, Ordered
  <1>5. Orderly' = Orderly
    BY <1>1 DEF Orderly
  <1>6. \A q \in Orderly : Reviewed(status[q], docs[q])'
    <2> SUFFICES ASSUME NEW q \in Orderly PROVE Reviewed(status'[q], docs'[q])
      BY DEF Reviewed
    <2>1. CASE q = r
      BY <1>3, <1>4, <2>1 DEF Plans
    <2>2. CASE q # r
      <3>1. q \in Restaurants
        BY DEF RestaurantInv, TypeOK, Orderly
      <3>2. Reviewed(status[q], docs[q])
        BY DEF OrderlyInv
      <3>3. QED
        BY <1>2, <2>2, <3>1, <3>2
    <2>3. QED
      BY <2>1, <2>2
  <1>7. sess'[s] # Idle /\ r \in Orderly =>
           sess'[s].restaurant = r /\ Ordered(sess[s])'
    <2> SUFFICES ASSUME sess'[s] # Idle, r \in Orderly
                 PROVE  sess'[s].restaurant = r /\ Ordered(sess[s])'
      OBVIOUS
    <2>1. w.next = "check"
      BY <1>f, <1>4 DEF AfterCommit, Plans, Work
    <2>2. PICK v : v = [w EXCEPT !.at = "check", !.docs = Keep, !.inserts = {}, !.next = "end"]
      OBVIOUS
    <2>3. sess'[s] = v
      BY <1>f, <2>1, <2>2 DEF AfterCommit
    <2>4. /\ v.restaurant = r /\ v.at = "check" /\ v.next = "end"
          /\ v.seen = w.seen /\ v.open = w.open
      BY <1>w, <2>2 DEF Work
    <2>5. w.seen = status[r] /\ w.open = Same
      BY <1>w, <1>4, <2>1 DEF Ordered
    <2>6. status'[r] = status[r]
      BY <1>w, <1>f, <1>3, <2>1 DEF Right, LeftStatus
    <2>7. Ordered(v)'
      BY <2>4, <2>5, <2>6 DEF Ordered
    <2>8. QED
      BY <2>3, <2>4, <2>7
  <1>8. ASSUME NEW t \in Sessions, Busy(t)', sess'[t].restaurant \in Orderly
        PROVE  /\ Ordered(sess[t])'
               /\ \A u \in Sessions \ {t} : Busy(u)' => sess'[u].restaurant # sess'[t].restaurant
    <2>0. sess'[s] # Idle => sess'[s].restaurant = r
      <3> SUFFICES ASSUME sess'[s] # Idle PROVE sess'[s].restaurant = r
        OBVIOUS
      <3>1. CASE w.next = "check"
        <4>1. PICK v : v = [w EXCEPT !.at = "check", !.docs = Keep, !.inserts = {}, !.next = "end"]
          OBVIOUS
        <4>2. QED
          BY <1>w, <1>f, <3>1, <4>1 DEF AfterCommit, Work
      <3>2. CASE w.next = "submit"
        <4>1. PICK v : v = [w EXCEPT !.creates = FALSE, !.next = "end",
                   !.seen = "PENDING_DOCS", !.status = Write(w.seen, "DOCS_SUBMITTED")]
          OBVIOUS
        <4>2. QED
          BY <1>w, <1>f, <3>2, <4>1 DEF AfterCommit, Work
      <3>3. w.next = "end" \/ w.next = "check" \/ w.next = "submit"
        BY DEF Work
      <3>4. w.next # "end"
        BY <1>f DEF AfterCommit
      <3>5. QED
        BY <3>1, <3>2, <3>3, <3>4
    <2>1. CASE t = s
      <3>1. r \in Orderly /\ sess'[s] # Idle /\ sess'[s].restaurant = r
        BY <1>8, <2>0, <2>1 DEF Busy
      <3>2. \A u \in Sessions \ {s} : Busy(u) => sess[u].restaurant # r
        BY <1>w, <1>1, <3>1 DEF OrderlyInv
      <3>3. QED
        BY <1>f, <1>7, <2>1, <3>1, <3>2 DEF Busy
    <2>2. CASE t # s
      <3>1. PICK v : v = sess[t] /\ v = sess'[t]
        BY <1>f, <2>2
      <3>2. Busy(t) /\ v.restaurant \in Orderly
        BY <1>8, <3>1 DEF Busy
      <3>3. /\ Ordered(v)
            /\ \A u \in Sessions \ {t} : Busy(u) => sess[u].restaurant # v.restaurant
        BY <3>1, <3>2 DEF OrderlyInv
      <3>4. v.restaurant # r /\ v.restaurant \in Restaurants
        BY <1>w, <1>1, <2>2, <3>2, <3>3 DEF RestaurantInv, TypeOK, Orderly
      <3>5. Ordered(v)'
        BY <1>2, <3>3, <3>4, OrderedStays
      <3>6. \A u \in Sessions \ {t} : Busy(u)' => sess'[u].restaurant # v.restaurant
        BY <1>f, <2>0, <3>3, <3>4 DEF Busy
      <3>7. QED
        BY <3>1, <3>5, <3>6
    <2>3. QED
      BY <2>1, <2>2
  <1>9. QED
    BY <1>5, <1>6, <1>8 DEF OrderlyInv

LEMMA FinishOrderly ==
    ASSUME RestaurantInv, OrderlyInv, NEW r \in Restaurants, FinishOrder(r)
    PROVE  OrderlyInv'
  <1>1. /\ UNCHANGED <<docs, status, sess, orderly, app>>
        /\ active[r] # 0
        /\ \A q \in Restaurants : q # r => active'[q] = active[q]
    BY DEF FinishOrder, kinds, RestaurantInv, TypeOK
  <1>2. ASSUME NEW s \in Sessions, Busy(s), Ordered(sess[s]) PROVE Ordered(sess[s])'
    <2>1. PICK v : v = sess[s] /\ v = sess'[s] /\ v.restaurant \in Restaurants
      BY <1>1, <1>2, BusyWorks DEF RestaurantInv
    <2>2. Ordered(v)'
      BY <1>1, <1>2, <2>1, OrderedStays
    <2>3. QED
      BY <2>1, <2>2
  <1>3. QED
    BY <1>1, <1>2 DEF OrderlyInv, Orderly, Reviewed, Busy

LEMMA NextOrderly ==
    ASSUME RestaurantInv, OrderlyInv, [Next]_vars
    PROVE  OrderlyInv'
  <1>1. CASE UNCHANGED vars
    BY <1>1 DEF vars, rows, kinds, OrderlyInv, Orderly, Reviewed, Busy, Ordered,
                Plans, LeftDocs, LeftStatus
  <1>2. ASSUME NEW s \in Sessions, Handler(s)
        PROVE  OrderlyInv'
    BY <1>2, SetupOrderly, UploadOrderly, RejectOrderly, CheckOrderly, SubmitOrderly,
       ApproveOrderly, UpdateStatusOrderly, SetOpenOrderly, PlaceOrderly
    DEF Handler, ToggleOpen, OnlineStatus
  <1>3. CASE Next
    BY <1>2, <1>3, RequestOrderly, CommitOrderly, EndOrderly, FinishOrderly DEF Next
  <1>4. QED
    BY <1>1, <1>3

\* Only a commit closes a restaurant, and it was planned while no order was active.
LEMMA ClosedWithoutOrders ==
    ASSUME RestaurantInv, OrderlyInv, [Next]_vars,
           NEW r \in Orderly, isOpen[r], ~isOpen'[r]
    PROVE  active[r] = 0
  <1>0. /\ isOpen' # isOpen
        /\ \A s \in Sessions : \A work : Decide(s, work) => isOpen' = isOpen
    BY DEF Decide, rows
  <1>h. ASSUME NEW s \in Sessions, Handler(s) PROVE FALSE
    <2>1. ~CheckDocuments(s)
      BY <1>0 DEF CheckDocuments, rows
    <2>2. \A b \in BOOLEAN : ~SetOpen(s, b) /\ ~UpdateRestaurantStatus(s, b)
      BY <1>0 DEF SetOpen, UpdateRestaurantStatus
    <2>3. \A d \in Docs : ~UploadDocument(s, d) /\ ~RejectDocument(s, d)
      BY <1>0 DEF UploadDocument, RejectDocument
    <2>4. ~SetupRestaurant(s) /\ ~CreateRestaurant(s) /\ ~SubmitDocuments(s)
          /\ ~ApproveRestaurant(s) /\ ~PlaceOrder(s)
      BY <1>0 DEF SetupRestaurant, CreateRestaurant, SubmitDocuments,
                  ApproveRestaurant, PlaceOrder
    <2>5. QED
      BY <1>h, <2>1, <2>2, <2>3, <2>4 DEF Handler, ToggleOpen, OnlineStatus
  <1>1. PICK s \in Sessions : Commit(s)
    BY <1>0, <1>h DEF Next, vars, rows, Request, Refuse, Conflict, Fail, FinishOrder
  <1>2. PICK w \in Work : w = sess[s] /\ w.at = "commit" /\ Busy(s)
    BY <1>1, BusyWorks DEF Commit, RestaurantInv
  <1>3. isOpen' = [isOpen EXCEPT ![w.restaurant] = IF w.open = Same THEN @ ELSE w.open = "TRUE"]
    BY <1>1, <1>2 DEF Commit
  <1>4. w.restaurant = r /\ w.open = "FALSE"
    BY <1>3 DEF RestaurantInv, TypeOK, Work
  <1>5. QED
    BY <1>2, <1>4 DEF OrderlyInv, Ordered, Plans

-----------------------------------------------------------------------------
(* Theorems *)

\* Every reachable state is well typed.
THEOREM RestaurantTypeCorrect == Spec => []TypeOK
  <1>1. RestaurantInv => TypeOK
    BY DEF RestaurantInv
  <1>2. QED
    BY <1>1, InitHolds, NextKept, PTL DEF Spec

\* However uploads, reviews and submissions of a restaurant overlap, as long as
\* none fails halfway: once the required documents are complete and nobody is
\* under way, they have been submitted (restaurant_document_service.py:158-180).
THEOREM UploadsAreSubmitted == Spec => []UploadsSubmit
  <1>1. RestaurantInv => UploadsSubmit
    BY DEF RestaurantInv, UploadsAwaited, UploadsSubmit, Awaited, Untouched, Busy,
           HasLeft
  <1>2. QED
    BY <1>1, InitHolds, NextKept, PTL DEF Spec

\* Only a restaurant whose partner has left PENDING_DOCS opens and gets orders,
\* whatever overlaps and fails; those of the app excepted.
THEOREM OpenAfterReview == Spec => []OpenWasReviewed
  <1>1. RestaurantInv => OpenWasReviewed
    BY DEF RestaurantInv
  <1>2. QED
    BY <1>1, InitHolds, NextKept, PTL DEF Spec

\* A restaurant on which requests do not overlap and that does not use the app:
\* while it waits for the review it lacks no required document, and when it is
\* approved none of its documents is rejected
\* (restaurant_document_service.py:158-180, admin_restaurant.py:106-156).
THEOREM ReviewStandsAlways == Spec => []ReviewStands
  <1>1. OrderlyInv => ReviewStands
    BY RestaurantAssumption
    DEF OrderlyInv, Orderly, Reviewed, ReviewStands, CanSubmit, MissingRequired,
        Uploaded, Approved, RejectedDocs
  <1>2. QED
    BY <1>1, InitHolds, NextKept, InitOrderly, NextOrderly, PTL DEF Spec

\* Such a restaurant does not close while it has active orders
\* (restaurant_partner_service.py:213-228).
THEOREM ActiveStaysOpen == Spec => OpenWhileActive
  <1>1. RestaurantInv /\ OrderlyInv /\ [Next]_vars =>
           [\A r \in orderly \ app : isOpen[r] /\ ~isOpen'[r] => active[r] = 0]_vars
    BY ClosedWithoutOrders DEF Orderly
  <1>2. QED
    BY <1>1, InitHolds, NextKept, InitOrderly, NextOrderly, PTL
    DEF Spec, OpenWhileActive
=============================================================================
