--------------------------- MODULE PartnerProofs ---------------------------
(***************************************************************************)
(* Proofs about Partner for any sets of partners, documents and sessions.  *)
(*                                                                         *)
(* The rows of an orderly partner are good (GoodRows), and what a session  *)
(* on that partner has decided to write leaves them good (Consistent): for *)
(* the session is alone, so the rows it decided on are those it overwrites.*)
(* What holds for every partner is that whoever submits has, or is about   *)
(* to write, every document (SubmitsComplete): rows are never deleted.     *)
(***************************************************************************)
EXTENDS Partner, TLAPS

-----------------------------------------------------------------------------
(* The inductive invariant *)

\* Are these rows of partner p as the properties want them?
GoodRows(p, ds, st, on, op, ca) ==
    /\ (\A d \in Docs : ds[d] # Missing) => st # "PENDING_KYC"
    /\ p \notin app =>
         /\ st = "KYC_APPROVED" => \A d \in Docs : ds[d] # "REJECTED"
         /\ on \/ ca => st \in {"KYC_APPROVED", "KYC_REJECTED"}
         /\ IF on THEN \E k \in 1..MaxShifts : op = {k} ELSE op = {}

\* The rows of its partner after the transaction w.
After(w) ==
    LET p == w.partner
    IN  GoodRows(p, [d \in Docs |-> IF w.docs[d] # Same THEN w.docs[d] ELSE docs[p][d]],
                 IF w.status = Same THEN status[p] ELSE w.status,
                 IF w.online = Same THEN online[p] ELSE w.online = "TRUE",
                 (open[p] \ w.ends) \cup (IF w.starts THEN {started[p] + 1} ELSE {}),
                 carrying[p] \/ w.assigns)

SubmitsComplete(w) ==
    w.partner \notin app /\ w.status = "KYC_SUBMITTED" =>
        \A d \in Docs : Uploaded(w.partner, d) \/ w.docs[d] # Same

Consistent(w) ==
    w.partner \in orderly =>
        /\ After(w)
        /\ w.partner \notin app /\ w.online = "FALSE" => ~carrying[w.partner]

\* A loaded session has decided nothing.
Blank(w) ==
    /\ w.docs = Keep /\ w.status = Same /\ w.online = Same
    /\ w.inserts = {} /\ w.locks = {} /\ w.ends = {}
    /\ ~w.starts /\ ~w.fresh /\ ~w.assigns

\* A session on an orderly partner is alone, and has seen the rows there are.
Alone(s) ==
    LET p == sess[s].partner
    IN  p \in orderly =>
          /\ sweep[p] = NotSwept
          /\ \A t \in Sessions : Busy(t) /\ sess[t].partner = p => t = s
          /\ Loaded(s) => /\ sess[s].seen = status[p]
                          /\ sess[s].seenOnline = online[p]

SessionsInv ==
    \A s \in Sessions : Busy(s) =>
        /\ Alone(s)
        /\ SubmitsComplete(sess[s])
        /\ Loaded(s) => Blank(sess[s])
        /\ sess[s].at = "commit" => Consistent(sess[s])

\* The shift that the cleanup task is about to end is the open one.
SweepInv ==
    \A p \in orderly : sweep[p] # NotSwept =>
        /\ online[p] /\ ~heard[p]
        /\ p \notin app => open[p] = {sweep[p]}

RowsInv ==
    \A p \in orderly :
        GoodRows(p, docs[p], status[p], online[p], open[p], carrying[p])

PartnerInv == TypeOK /\ SubmittedIsComplete /\ RowsInv /\ SweepInv /\ SessionsInv

-----------------------------------------------------------------------------
(* Handlers *)

\* What a handler does: it decides on writes that are sound.
DecidesWell(s) ==
    /\ Busy(s)
    /\ \E w \in Work :
         /\ w.at = "commit" /\ w.partner = sess[s].partner
         /\ sess' = [sess EXCEPT ![s] = w]
         /\ SubmitsComplete(w)
         /\ Consistent(w)
    /\ UNCHANGED <<kycVars, dutyVars, heard, sweep, orderly, app>>

\* What a loaded session knows.
LEMMA LoadedFacts ==
    ASSUME PartnerInv, NEW s \in Sessions, Loaded(s)
    PROVE  /\ sess[s] \in Work /\ Busy(s) /\ Blank(sess[s])
           /\ sess[s].partner \in Partners
           /\ sess[s].partner \in orderly =>
                /\ sess[s].seen = status[sess[s].partner]
                /\ sess[s].seenOnline = online[sess[s].partner]
                /\ GoodRows(sess[s].partner, docs[sess[s].partner],
                            status[sess[s].partner], online[sess[s].partner],
                            open[sess[s].partner], carrying[sess[s].partner])
                /\ sweep[sess[s].partner] = NotSwept
  <1>1. sess[s] \in Work /\ Busy(s)
    BY DEF PartnerInv, TypeOK, Loaded, Busy
  <1>2. Alone(s) /\ Blank(sess[s])
    BY <1>1 DEF PartnerInv, SessionsInv
  <1>3. sess[s].partner \in Partners
    BY <1>1 DEF Work
  <1>4. QED
    BY <1>1, <1>2, <1>3 DEF Alone, PartnerInv, RowsInv

\* A transaction that leaves documents and status alone.
LEMMA AfterDuty ==
    ASSUME TypeOK, NEW w \in Work, w.docs = Keep, w.status = Same,
           LET p == w.partner
           IN  GoodRows(p, docs[p], status[p],
                 IF w.online = Same THEN online[p] ELSE w.online = "TRUE",
                 (open[p] \ w.ends) \cup (IF w.starts THEN {started[p] + 1} ELSE {}),
                 carrying[p] \/ w.assigns)
    PROVE  After(w)
  <1> DEFINE p == w.partner
             ds == [d \in Docs |-> IF w.docs[d] # Same THEN w.docs[d] ELSE docs[p][d]]
  <1>1. p \in Partners
    BY DEF Work
  <1>2. docs[p] \in [Docs -> DocStatus \cup {Missing}]
    BY <1>1 DEF TypeOK
  <1>3. ds = docs[p]
    BY <1>2 DEF Keep
  <1>4. QED
    BY <1>3 DEF After

\* A transaction that leaves duty and assignments alone.
LEMMA AfterReview ==
    ASSUME TypeOK, NEW w \in Work, w.online = Same, w.ends = {}, ~w.starts, ~w.assigns,
           LET p == w.partner
           IN  GoodRows(p,
                 [d \in Docs |-> IF w.docs[d] # Same THEN w.docs[d] ELSE docs[p][d]],
                 IF w.status = Same THEN status[p] ELSE w.status,
                 online[p], open[p], carrying[p])
    PROVE  After(w)
  <1> DEFINE p == w.partner
             op == (open[p] \ w.ends) \cup (IF w.starts THEN {started[p] + 1} ELSE {})
  <1>1. p \in Partners /\ online[p] \in BOOLEAN /\ carrying[p] \in BOOLEAN
    BY DEF Work, TypeOK
  <1>2. op = open[p]
    OBVIOUS
  <1>3. (IF w.online = Same THEN online[p] ELSE w.online = "TRUE") = online[p]
    OBVIOUS
  <1>4. (carrying[p] \/ w.assigns) = carrying[p]
    BY <1>1
  <1>5. QED
    BY <1>2, <1>3, <1>4 DEF After

LEMMA UploadWell ==
    ASSUME PartnerInv, NEW s \in Sessions, NEW d \in Docs, UploadDocument(s, d)
    PROVE  DecidesWell(s)
  <1> DEFINE w == sess[s]
             p == w.partner
             x == [w EXCEPT
                     !.docs[d] = "PENDING", !.locks = {d},
                     !.status = IF Complete(p, d) /\ w.seen = "PENDING_KYC"
                                THEN "KYC_SUBMITTED" ELSE Same]
             y == [x EXCEPT !.at = "commit", !.seen = "PENDING_KYC",
                            !.seenOnline = FALSE]
  <1>1. Loaded(s) /\ Decide(s, x)
    BY DEF UploadDocument
  <1>2. /\ w \in Work /\ Busy(s) /\ Blank(w) /\ p \in Partners
        /\ p \in orderly =>
             /\ w.seen = status[p] /\ w.seenOnline = online[p]
             /\ GoodRows(p, docs[p], status[p], online[p], open[p], carrying[p])
    BY <1>1, LoadedFacts
  <1>3. /\ y \in Work /\ y.at = "commit" /\ y.partner = p
        /\ y.docs = [e \in Docs |-> IF e = d THEN "PENDING" ELSE Same]
        /\ y.status = IF Complete(p, d) /\ w.seen = "PENDING_KYC"
                      THEN "KYC_SUBMITTED" ELSE Same
        /\ y.online = Same /\ y.ends = {} /\ ~y.starts /\ ~y.assigns
    BY <1>2 DEF Work, Blank, Keep, DocStatus, Status, Same
  <1>4. SubmitsComplete(y)
    BY <1>3 DEF SubmitsComplete, Complete, Same
  <1>5. Consistent(y)
    BY <1>2, <1>3 DEF Consistent, After, GoodRows, Complete, Uploaded, Same,
                      Missing, PartnerInv, TypeOK
  <1>6. QED
    BY <1>1, <1>2, <1>3, <1>4, <1>5 DEF DecidesWell, Decide

LEMMA ApproveWell ==
    ASSUME PartnerInv, NEW s \in Sessions, ApproveKyc(s)
    PROVE  DecidesWell(s)
  <1> DEFINE w == sess[s]
             p == w.partner
             x == [w EXCEPT
                     !.docs = [d \in Docs |-> IF d \in {e \in Docs : Uploaded(p, e)}
                                              THEN "APPROVED" ELSE Same],
                     !.locks = {e \in Docs : Uploaded(p, e)},
                     !.status = Write(w.seen, "KYC_APPROVED")]
             y == [x EXCEPT !.at = "commit", !.seen = "PENDING_KYC",
                            !.seenOnline = FALSE]
  <1>1. Loaded(s) /\ Decide(s, x)
    BY DEF ApproveKyc
  <1>2. /\ w \in Work /\ Busy(s) /\ Blank(w) /\ p \in Partners
        /\ p \in orderly =>
             /\ w.seen = status[p] /\ w.seenOnline = online[p]
             /\ GoodRows(p, docs[p], status[p], online[p], open[p], carrying[p])
    BY <1>1, LoadedFacts
  <1>3. /\ y \in Work /\ y.at = "commit" /\ y.partner = p
        /\ y.docs = [d \in Docs |-> IF Uploaded(p, d) THEN "APPROVED" ELSE Same]
        /\ y.status = IF w.seen = "KYC_APPROVED" THEN Same ELSE "KYC_APPROVED"
        /\ y.online = Same /\ y.ends = {} /\ ~y.starts /\ ~y.assigns
    BY <1>1, <1>2 DEF Work, Blank, Keep, DocStatus, Status, Same, Write
  <1>4. SubmitsComplete(y)
    BY <1>1, <1>3 DEF SubmitsComplete, Same, Write
  <1>5. Consistent(y)
    BY <1>1, <1>2, <1>3 DEF Consistent, After, GoodRows, Uploaded, Same, Write,
                      Missing, PartnerInv, TypeOK
  <1>6. QED
    BY <1>1, <1>2, <1>3, <1>4, <1>5 DEF DecidesWell, Decide

LEMMA RejectWell ==
    ASSUME PartnerInv, NEW s \in Sessions, NEW d \in Docs, RejectKyc(s, d)
    PROVE  DecidesWell(s)
  <1> DEFINE w == sess[s]
             p == w.partner
             x == [w EXCEPT
                     !.docs[d] = Write(docs[p][d], "REJECTED"),
                     !.status = Write(w.seen, "KYC_REJECTED")]
             y == [x EXCEPT !.at = "commit", !.seen = "PENDING_KYC",
                            !.seenOnline = FALSE]
  <1>1. Loaded(s) /\ Decide(s, x)
    BY DEF RejectKyc
  <1>2. /\ w \in Work /\ Busy(s) /\ Blank(w) /\ p \in Partners
        /\ p \in orderly =>
             /\ w.seen = status[p] /\ w.seenOnline = online[p]
             /\ GoodRows(p, docs[p], status[p], online[p], open[p], carrying[p])
    BY <1>1, LoadedFacts
  <1>3. /\ y \in Work /\ y.at = "commit" /\ y.partner = p
        /\ y.status = IF w.seen = "KYC_REJECTED" THEN Same ELSE "KYC_REJECTED"
        /\ \A e \in Docs : y.docs[e] \in {"REJECTED", Same}
        /\ y.online = Same /\ y.ends = {} /\ ~y.starts /\ ~y.assigns
    BY <1>1, <1>2 DEF Work, Blank, Keep, DocStatus, Status, Same, Write
  <1>4. SubmitsComplete(y)
    BY <1>1, <1>3 DEF SubmitsComplete, Same, Write
  <1>5. Consistent(y)
    <2> SUFFICES ASSUME p \in orderly PROVE Consistent(y)
      BY <1>3 DEF Consistent
    <2>1. GoodRows(p, [e \in Docs |-> IF y.docs[e] # Same THEN y.docs[e] ELSE docs[p][e]],
                   IF y.status = Same THEN status[p] ELSE y.status,
                   online[p], open[p], carrying[p])
      BY <1>2, <1>3 DEF GoodRows, Same
    <2>2. After(y)
      BY <1>3, <2>1, AfterReview DEF PartnerInv
    <2>3. QED
      BY <1>3, <2>2 DEF Consistent, Same
  <1>6. QED
    BY <1>1, <1>2, <1>3, <1>4, <1>5 DEF DecidesWell, Decide

LEMMA SubmitAgentWell ==
    ASSUME PartnerInv, NEW s \in Sessions, NEW ds \in SUBSET AppDocs, SubmitAgentKyc(s, ds)
    PROVE  DecidesWell(s)
  <1> DEFINE w == sess[s]
             p == w.partner
             x == [w EXCEPT
                     !.docs = [d \in Docs |-> IF d \in ds
                                              THEN Write(docs[p][d], "PENDING")
                                              ELSE Same],
                     !.inserts = {d \in ds : ~Uploaded(p, d)},
                     !.status = Write(w.seen, "KYC_SUBMITTED")]
             y == [x EXCEPT !.at = "commit", !.seen = "PENDING_KYC",
                            !.seenOnline = FALSE]
  <1>1. Loaded(s) /\ Decide(s, x) /\ p \in app
    BY DEF SubmitAgentKyc
  <1>2. /\ w \in Work /\ Busy(s) /\ Blank(w) /\ p \in Partners
        /\ p \in orderly =>
             /\ w.seen = status[p] /\ w.seenOnline = online[p]
             /\ GoodRows(p, docs[p], status[p], online[p], open[p], carrying[p])
    BY <1>1, LoadedFacts
  <1>3. /\ y \in Work /\ y.at = "commit" /\ y.partner = p
        /\ y.status = IF w.seen = "KYC_SUBMITTED" THEN Same ELSE "KYC_SUBMITTED"
    BY <1>1, <1>2, PartnerAssumption DEF Work, Blank, Keep, DocStatus, Status, Same, Write
  <1>4. SubmitsComplete(y)
    BY <1>1, <1>3 DEF SubmitsComplete, Same, Write
  <1>5. Consistent(y)
    BY <1>1, <1>2, <1>3, PartnerAssumption DEF Consistent, After, GoodRows, Uploaded, Same, Write,
                      Missing, PartnerInv, TypeOK
  <1>6. QED
    BY <1>1, <1>2, <1>3, <1>4, <1>5 DEF DecidesWell, Decide

LEMMA StartWell ==
    ASSUME PartnerInv, NEW s \in Sessions, StartDuty(s)
    PROVE  DecidesWell(s)
  <1> DEFINE w == sess[s]
             p == w.partner
             x == [w EXCEPT !.online = "TRUE", !.fresh = TRUE, !.starts = TRUE]
             y == [x EXCEPT !.at = "commit", !.seen = "PENDING_KYC",
                            !.seenOnline = FALSE]
  <1>1. Loaded(s) /\ Decide(s, x) /\ w.seen = "KYC_APPROVED" /\ ~w.seenOnline
        /\ started[p] < MaxShifts
    BY DEF Approved, StartDuty
  <1>2. /\ w \in Work /\ Busy(s) /\ Blank(w) /\ p \in Partners
        /\ p \in orderly =>
             /\ w.seen = status[p] /\ w.seenOnline = online[p]
             /\ GoodRows(p, docs[p], status[p], online[p], open[p], carrying[p])
    BY <1>1, LoadedFacts
  <1>3. /\ y \in Work /\ y.at = "commit" /\ y.partner = p
        /\ y.docs = Keep /\ y.status = Same /\ y.online = "TRUE"
        /\ y.ends = {} /\ y.starts /\ ~y.assigns
    BY <1>1, <1>2, PartnerAssumption DEF Work, Blank, Keep, DocStatus, Status, Same, Write
  <1>4. SubmitsComplete(y)
    BY <1>1, <1>3 DEF SubmitsComplete, Same, Write
  <1>5. Consistent(y)
    <2> SUFFICES ASSUME p \in orderly PROVE Consistent(y)
      BY <1>3 DEF Consistent
    <2>1. GoodRows(p, docs[p], status[p],
                   IF y.online = Same THEN online[p] ELSE y.online = "TRUE",
                   (open[p] \ y.ends) \cup (IF y.starts THEN {started[p] + 1} ELSE {}),
                   carrying[p] \/ y.assigns)
      <3>1. p \notin app => open[p] = {}
        BY <1>1, <1>2 DEF GoodRows
      <3>2. started[p] + 1 \in 1..MaxShifts
        BY <1>1, <1>2, PartnerAssumption DEF PartnerInv, TypeOK
      <3>3. p \notin app =>
              (open[p] \ y.ends) \cup (IF y.starts THEN {started[p] + 1} ELSE {})
              = {started[p] + 1}
        BY <1>3, <3>1
      <3>4. QED
        BY <1>1, <1>2, <1>3, <3>2, <3>3 DEF GoodRows, Same
    <2>2. After(y)
      BY <1>3, <2>1, AfterDuty DEF PartnerInv
    <2>3. QED
      BY <1>1, <1>3, <2>2 DEF Consistent, Same
  <1>6. QED
    BY <1>1, <1>2, <1>3, <1>4, <1>5 DEF DecidesWell, Decide

LEMMA OfflineWell ==
    ASSUME PartnerInv, NEW s \in Sessions, GoOffline(s)
    PROVE  DecidesWell(s)
  <1> DEFINE w == sess[s]
             p == w.partner
             x == [w EXCEPT !.online = "FALSE", !.ends = Newest(p)]
             y == [x EXCEPT !.at = "commit", !.seen = "PENDING_KYC",
                            !.seenOnline = FALSE]
  <1>1. Loaded(s) /\ Decide(s, x) /\ w.seenOnline /\ ~carrying[p]
    BY DEF GoOffline
  <1>2. /\ w \in Work /\ Busy(s) /\ Blank(w) /\ p \in Partners
        /\ p \in orderly =>
             /\ w.seen = status[p] /\ w.seenOnline = online[p]
             /\ GoodRows(p, docs[p], status[p], online[p], open[p], carrying[p])
    BY <1>1, LoadedFacts
  <1>3. /\ y \in Work /\ y.at = "commit" /\ y.partner = p
        /\ y.docs = Keep /\ y.status = Same /\ y.online = "FALSE"
        /\ y.ends = Newest(p) /\ ~y.starts /\ ~y.assigns
    BY <1>1, <1>2, PartnerAssumption DEF Work, Blank, Keep, DocStatus, Status, Same, Write, Newest, PartnerInv, TypeOK
  <1>4. SubmitsComplete(y)
    BY <1>1, <1>3 DEF SubmitsComplete, Same, Write
  <1>5. Consistent(y)
    <2> SUFFICES ASSUME p \in orderly PROVE Consistent(y)
      BY <1>3 DEF Consistent
    <2>1. GoodRows(p, docs[p], status[p],
                   IF y.online = Same THEN online[p] ELSE y.online = "TRUE",
                   (open[p] \ y.ends) \cup (IF y.starts THEN {started[p] + 1} ELSE {}),
                   carrying[p] \/ y.assigns)
      <3>1. p \notin app => \E k \in 1..MaxShifts : open[p] = {k}
        BY <1>1, <1>2 DEF GoodRows
      <3>2. p \notin app => open[p] \ y.ends = {}
        BY <1>3, <3>1, PartnerAssumption DEF Newest
      <3>3. carrying[p] \/ y.assigns => FALSE
        BY <1>1, <1>3
      <3>4. QED
        BY <1>2, <1>3, <3>2, <3>3 DEF GoodRows, Same
    <2>2. After(y)
      BY <1>3, <2>1, AfterDuty DEF PartnerInv
    <2>3. QED
      BY <1>1, <1>3, <2>2 DEF Consistent, Same
  <1>6. QED
    BY <1>1, <1>2, <1>3, <1>4, <1>5 DEF DecidesWell, Decide

LEMMA AssignWell ==
    ASSUME PartnerInv, NEW s \in Sessions, Assign(s)
    PROVE  DecidesWell(s)
  <1> DEFINE w == sess[s]
             p == w.partner
             x == [w EXCEPT !.assigns = TRUE]
             y == [x EXCEPT !.at = "commit", !.seen = "PENDING_KYC",
                            !.seenOnline = FALSE]
  <1>1. Loaded(s) /\ Decide(s, x) /\ online[p]
    BY DEF Assign
  <1>2. /\ w \in Work /\ Busy(s) /\ Blank(w) /\ p \in Partners
        /\ p \in orderly =>
             /\ w.seen = status[p] /\ w.seenOnline = online[p]
             /\ GoodRows(p, docs[p], status[p], online[p], open[p], carrying[p])
    BY <1>1, LoadedFacts
  <1>3. /\ y \in Work /\ y.at = "commit" /\ y.partner = p
        /\ y.docs = Keep /\ y.status = Same /\ y.online = Same
        /\ y.ends = {} /\ ~y.starts
    BY <1>1, <1>2 DEF Work, Blank, Keep, DocStatus, Status, Same, Write
  <1>4. SubmitsComplete(y)
    BY <1>1, <1>3 DEF SubmitsComplete, Same, Write
  <1>5. Consistent(y)
    <2> SUFFICES ASSUME p \in orderly PROVE Consistent(y)
      BY <1>3 DEF Consistent
    <2>1. GoodRows(p, docs[p], status[p],
                   IF y.online = Same THEN online[p] ELSE y.online = "TRUE",
                   (open[p] \ y.ends) \cup (IF y.starts THEN {started[p] + 1} ELSE {}),
                   carrying[p] \/ y.assigns)
      <3>1. p \notin app => \E k \in 1..MaxShifts : open[p] = {k}
        BY <1>1, <1>2 DEF GoodRows
      <3>2. (IF y.online = Same THEN online[p] ELSE y.online = "TRUE") = online[p]
        BY <1>3
      <3>3. (open[p] \ y.ends) \cup (IF y.starts THEN {started[p] + 1} ELSE {}) = open[p]
        BY <1>3
      <3>4. QED
        BY <1>1, <1>2, <3>1, <3>2, <3>3 DEF GoodRows
    <2>2. After(y)
      BY <1>3, <2>1, AfterDuty DEF PartnerInv
    <2>3. QED
      BY <1>1, <1>3, <2>2 DEF Consistent, Same
  <1>6. QED
    BY <1>1, <1>2, <1>3, <1>4, <1>5 DEF DecidesWell, Decide

LEMMA SwitchWell ==
    ASSUME PartnerInv, NEW s \in Sessions, NEW b \in BOOLEAN, AgentOnlineStatus(s, b)
    PROVE  DecidesWell(s)
  <1> DEFINE w == sess[s]
             p == w.partner
             x == [w EXCEPT
                     !.online = IF w.seenOnline = b THEN Same
                                ELSE IF b THEN "TRUE" ELSE "FALSE",
                     !.fresh = TRUE]
             y == [x EXCEPT !.at = "commit", !.seen = "PENDING_KYC",
                            !.seenOnline = FALSE]
  <1>1. Loaded(s) /\ Decide(s, x) /\ p \in app
    BY DEF AgentOnlineStatus
  <1>2. /\ w \in Work /\ Busy(s) /\ Blank(w) /\ p \in Partners
        /\ p \in orderly =>
             /\ w.seen = status[p] /\ w.seenOnline = online[p]
             /\ GoodRows(p, docs[p], status[p], online[p], open[p], carrying[p])
    BY <1>1, LoadedFacts
  <1>3. /\ y \in Work /\ y.at = "commit" /\ y.partner = p
        /\ y.docs = Keep /\ y.status = Same
    BY <1>1, <1>2 DEF Work, Blank, Keep, DocStatus, Status, Same, Write
  <1>4. SubmitsComplete(y)
    BY <1>1, <1>3 DEF SubmitsComplete, Same, Write
  <1>5. Consistent(y)
    BY <1>1, <1>2, <1>3 DEF Consistent, After, GoodRows, Uploaded, Same, Write,
                      Missing, PartnerInv, TypeOK, Keep
  <1>6. QED
    BY <1>1, <1>2, <1>3, <1>4, <1>5 DEF DecidesWell, Decide

LEMMA UpdateAgentWell ==
    ASSUME PartnerInv, NEW s \in Sessions, UpdateAgentKycStatus(s)
    PROVE  DecidesWell(s)
  <1> DEFINE w == sess[s]
             p == w.partner
             X(st, ds) == [w EXCEPT !.docs = ds, !.status = Write(w.seen, st)]
             Y(st, ds) == [X(st, ds) EXCEPT !.at = "commit", !.seen = "PENDING_KYC",
                                            !.seenOnline = FALSE]
             Rejected(d) == [w.docs EXCEPT ![d] = Write(docs[p][d], "REJECTED")]
  <1>1. Loaded(s) /\ p \in app
    BY DEF UpdateAgentKycStatus
  <1>2. /\ w \in Work /\ Busy(s) /\ Blank(w) /\ p \in Partners
        /\ p \in orderly =>
             /\ w.seen = status[p] /\ w.seenOnline = online[p]
             /\ GoodRows(p, docs[p], status[p], online[p], open[p], carrying[p])
    BY <1>1, LoadedFacts
  <1>3. PICK st \in {"KYC_APPROVED", "KYC_REJECTED"}, ds \in {w.docs} \cup {Rejected(d) : d \in Docs} :
          Decide(s, X(st, ds))
    <2>1. CASE Decide(s, [w EXCEPT !.status = Write(w.seen, "KYC_APPROVED")])
      <3>1. [w EXCEPT !.status = Write(w.seen, "KYC_APPROVED")] = X("KYC_APPROVED", w.docs)
        BY <1>2 DEF Work
      <3>2. QED
        BY <2>1, <3>1
    <2>2. CASE Decide(s, [w EXCEPT !.status = Write(w.seen, "KYC_REJECTED")])
      <3>1. [w EXCEPT !.status = Write(w.seen, "KYC_REJECTED")] = X("KYC_REJECTED", w.docs)
        BY <1>2 DEF Work
      <3>2. QED
        BY <2>2, <3>1
    <2>3. CASE \E d \in Docs :
                 Decide(s, [w EXCEPT !.docs[d] = Write(docs[p][d], "REJECTED"),
                                     !.status = Write(w.seen, "KYC_REJECTED")])
      <3>1. PICK d \in Docs :
                 Decide(s, [w EXCEPT !.docs[d] = Write(docs[p][d], "REJECTED"),
                                     !.status = Write(w.seen, "KYC_REJECTED")])
        BY <2>3
      <3>2. QED
        BY <3>1
    <2>4. QED
      BY <2>1, <2>2, <2>3 DEF UpdateAgentKycStatus
  <1> DEFINE y == Y(st, ds)
  <1>4. /\ y \in Work /\ y.at = "commit" /\ y.partner = p
        /\ y.status = IF w.seen = st THEN Same ELSE st
        /\ y.docs = ds
        /\ y.online = Same /\ y.ends = {} /\ ~y.starts /\ ~y.assigns
    <2>1. ds \in [Docs -> DocStatus \cup {Same}]
      BY <1>2 DEF Work, Blank, Keep, DocStatus, Write
    <2>2. QED
      BY <1>2, <2>1 DEF Work, Blank, DocStatus, Status, Same, Write
  <1>5. SubmitsComplete(y)
    BY <1>1, <1>4 DEF SubmitsComplete
  <1>6. Consistent(y)
    <2> SUFFICES ASSUME p \in orderly PROVE Consistent(y)
      BY <1>4 DEF Consistent
    <2>1. GoodRows(p, [e \in Docs |-> IF y.docs[e] # Same THEN y.docs[e] ELSE docs[p][e]],
                   IF y.status = Same THEN status[p] ELSE y.status,
                   online[p], open[p], carrying[p])
      BY <1>1, <1>2, <1>4 DEF GoodRows, Same
    <2> HIDE DEF y
    <2>2. After(y)
      BY <1>4, <2>1, AfterReview DEF PartnerInv
    <2>3. QED
      BY <1>1, <1>4, <2>2 DEF Consistent
  <1>7. QED
    BY <1>2, <1>3, <1>4, <1>5, <1>6 DEF DecidesWell, Decide

\* Every handler decides on sound writes, or ends its session.
LEMMA HandlerWell ==
    ASSUME PartnerInv, NEW s \in Sessions, Handler(s)
    PROVE  DecidesWell(s) \/ End(s)
  BY UploadWell, ApproveWell, RejectWell, SubmitAgentWell, UpdateAgentWell,
     StartWell, OfflineWell, AssignWell, SwitchWell
     DEF Handler, SubmitKyc, AppStartDuty, StopDuty, AppStopDuty

-----------------------------------------------------------------------------
(* Steps *)

LEMMA InitKept == Init => PartnerInv
  <1> SUFFICES ASSUME Init PROVE PartnerInv
    OBVIOUS
  <1>1. TypeOK
    BY PartnerAssumption DEF Init, TypeOK, Missing, Status, Idle, NotSwept
  <1>2. SubmittedIsComplete /\ RowsInv /\ SweepInv
    BY PartnerAssumption DEF Init, SubmittedIsComplete, PendingKyc, RowsInv, GoodRows,
                            SweepInv, Missing
  <1>3. SessionsInv
    BY DEF Init, SessionsInv, Busy
  <1>4. QED
    BY <1>1, <1>2, <1>3 DEF PartnerInv

LEMMA DecideKept ==
    ASSUME PartnerInv, NEW s \in Sessions, DecidesWell(s)
    PROVE  PartnerInv'
  <1>1. PICK w \in Work :
          /\ w.at = "commit" /\ w.partner = sess[s].partner
          /\ sess' = [sess EXCEPT ![s] = w]
          /\ SubmitsComplete(w)
          /\ Consistent(w)
    BY DEF DecidesWell
  <1>2. Busy(s) /\ UNCHANGED <<docs, status, online, open, started, carrying,
                               heard, sweep, orderly, app>>
    BY DEF DecidesWell, kycVars, dutyVars
  <1>3. TypeOK'
    BY <1>1, <1>2 DEF PartnerInv, TypeOK
  <1>4. SubmittedIsComplete' /\ RowsInv' /\ SweepInv'
    BY <1>2 DEF PartnerInv, SubmittedIsComplete, PendingKyc, CanSubmit, MissingRequired,
                Uploaded, RowsInv, GoodRows, SweepInv
  <1>5. \A t \in Sessions :
          /\ Busy(t)' <=> Busy(t)
          /\ sess'[t] = IF t = s THEN w ELSE sess[t]
          /\ Busy(t) => sess'[t].partner = sess[t].partner
    BY <1>1, <1>2 DEF Busy, Idle, PartnerInv, TypeOK
  <1>6. SessionsInv'
    <2> SUFFICES ASSUME NEW t \in Sessions, Busy(t)'
                 PROVE  /\ Alone(t)'
                        /\ SubmitsComplete(sess[t])'
                        /\ Loaded(t)' => Blank(sess[t])'
                        /\ (sess[t].at = "commit")' => Consistent(sess[t])'
      BY DEF SessionsInv
    <2>1. Alone(t)'
      BY <1>1, <1>2, <1>5 DEF PartnerInv, SessionsInv, Alone, Loaded
    <2>2. CASE t = s
      BY <1>1, <1>2, <1>5, <2>1, <2>2 DEF SubmitsComplete, Consistent, After, GoodRows,
                                          Uploaded, Loaded
    <2>3. CASE t # s
      BY <1>2, <1>5, <2>1, <2>3 DEF PartnerInv, SessionsInv, SubmitsComplete, Consistent,
                               After, GoodRows, Uploaded, Loaded, Blank
    <2>4. QED
      BY <2>2, <2>3
  <1>7. QED
    BY <1>3, <1>4, <1>6 DEF PartnerInv

LEMMA RequestKept ==
    ASSUME PartnerInv, NEW s \in Sessions, NEW p \in Partners, Request(s, p)
    PROVE  PartnerInv'
  <1> DEFINE w == sess'[s]
  <1>1. /\ w \in Work /\ w.partner = p /\ w.at = "loaded" /\ w.seen = status[p]
        /\ w.seenOnline = online[p] /\ w.docs = Keep /\ w.status = Same
        /\ w.online = Same /\ w.inserts = {} /\ w.locks = {} /\ w.ends = {}
        /\ ~w.starts /\ ~w.fresh /\ ~w.assigns
        /\ sess' = [sess EXCEPT ![s] = w]
    BY DEF Request, PartnerInv, TypeOK, Work, Keep, Status, Same, DocStatus
  <1> HIDE DEF w
  <1>2. /\ ~Busy(s) /\ (p \in orderly => Untouched(p))
        /\ UNCHANGED <<docs, status, online, open, started, carrying,
                       heard, sweep, orderly, app>>
    BY DEF Request, kycVars, dutyVars
  <1>3. TypeOK'
    BY <1>1, <1>2 DEF PartnerInv, TypeOK
  <1>4. SubmittedIsComplete' /\ RowsInv' /\ SweepInv'
    BY <1>2 DEF PartnerInv, SubmittedIsComplete, PendingKyc, CanSubmit, MissingRequired,
                Uploaded, RowsInv, GoodRows, SweepInv
  <1>5. \A t \in Sessions :
          /\ t # s => (Busy(t)' <=> Busy(t)) /\ sess'[t] = sess[t]
          /\ t = s => Busy(t)' /\ sess'[t] = w
    BY <1>1, <1>2 DEF Busy, Idle, PartnerInv, TypeOK
  <1>6. SessionsInv'
    <2> SUFFICES ASSUME NEW t \in Sessions, Busy(t)'
                 PROVE  /\ Alone(t)'
                        /\ SubmitsComplete(sess[t])'
                        /\ Loaded(t)' => Blank(sess[t])'
                        /\ (sess[t].at = "commit")' => Consistent(sess[t])'
      BY DEF SessionsInv
    <2>1. CASE t = s
      <3>1. SubmitsComplete(sess[t])'
        BY <1>1, <1>5, <2>1 DEF SubmitsComplete, Same
      <3>2. Alone(t)'
        BY <1>1, <1>2, <1>5, <2>1 DEF Alone, Untouched, Loaded
      <3>3. QED
        BY <1>1, <1>5, <2>1, <3>1, <3>2 DEF Blank, Loaded, Keep
    <2>2. CASE t # s
      <3>1. Busy(t) /\ sess'[t] = sess[t]
        BY <1>5, <2>2
      <3>2. Alone(t)'
        BY <1>1, <1>2, <1>5, <2>2, <3>1 DEF PartnerInv, SessionsInv, Alone, Untouched, Loaded
      <3>3. QED
        BY <1>2, <3>1, <3>2 DEF PartnerInv, SessionsInv, SubmitsComplete, Consistent, After,
                                GoodRows, Uploaded, Loaded, Blank
    <2>3. QED
      BY <2>1, <2>2
  <1>7. QED
    BY <1>3, <1>4, <1>6 DEF PartnerInv

LEMMA EndKept ==
    ASSUME PartnerInv, NEW s \in Sessions, End(s)
    PROVE  PartnerInv'
  <1>1. /\ sess' = [sess EXCEPT ![s] = Idle]
        /\ UNCHANGED <<docs, status, online, open, started, carrying,
                       heard, sweep, orderly, app>>
    BY DEF End, kycVars, dutyVars
  <1>2. TypeOK'
    BY <1>1 DEF PartnerInv, TypeOK
  <1>3. SubmittedIsComplete' /\ RowsInv' /\ SweepInv'
    BY <1>1 DEF PartnerInv, SubmittedIsComplete, PendingKyc, CanSubmit, MissingRequired,
                Uploaded, RowsInv, GoodRows, SweepInv
  <1>4. \A t \in Sessions : Busy(t)' => Busy(t) /\ sess'[t] = sess[t]
    BY <1>1 DEF Busy, PartnerInv, TypeOK
  <1>5. SessionsInv'
    BY <1>1, <1>4 DEF PartnerInv, SessionsInv, Alone, SubmitsComplete, Consistent, After,
                      GoodRows, Uploaded, Loaded, Blank
  <1>6. QED
    BY <1>2, <1>3, <1>5 DEF PartnerInv

LEMMA CommitKept ==
    ASSUME PartnerInv, NEW s \in Sessions, Commit(s)
    PROVE  PartnerInv'
  <1> DEFINE w == sess[s]
             p == w.partner
             ds == [d \in Docs |-> IF w.docs[d] # Same THEN w.docs[d] ELSE docs[p][d]]
             st == IF w.status = Same THEN status[p] ELSE w.status
             on == IF w.online = Same THEN online[p] ELSE w.online = "TRUE"
             op == (open[p] \ w.ends) \cup (IF w.starts THEN {started[p] + 1} ELSE {})
             ca == carrying[p] \/ w.assigns
  <1>1. /\ w \in Work /\ Busy(s) /\ w.at = "commit" /\ p \in Partners
        /\ w.starts => started[p] < MaxShifts
    <2>1. Busy(s) /\ w.at = "commit" /\ (w.starts => started[p] < MaxShifts)
      BY DEF Commit
    <2>2. w \in Work
      BY <2>1 DEF PartnerInv, TypeOK, Busy
    <2>3. QED
      BY <2>1, <2>2 DEF Work
  <1> HIDE DEF ds, st, on, op, ca
  <1>2. /\ docs' = [docs EXCEPT ![p] = ds]
        /\ status' = [status EXCEPT ![p] = st]
        /\ online' = [online EXCEPT ![p] = on]
        /\ open' = [open EXCEPT ![p] = op]
        /\ carrying' = [carrying EXCEPT ![p] = ca]
        /\ started' = [started EXCEPT ![p] = IF w.starts THEN started[p] + 1 ELSE started[p]]
        /\ heard' = [heard EXCEPT ![p] = heard[p] \/ w.fresh]
        /\ sess' = [sess EXCEPT ![s] = Idle]
        /\ UNCHANGED <<sweep, orderly, app>>
    BY <1>1 DEF Commit, PartnerInv, TypeOK, ds, st, on, op, ca
  <1>3. /\ ds \in [Docs -> DocStatus \cup {Missing}] /\ st \in Status /\ on \in BOOLEAN
        /\ op \in SUBSET (1..MaxShifts) /\ ca \in BOOLEAN
    <2>1. ds \in [Docs -> DocStatus \cup {Missing}]
      BY <1>1 DEF PartnerInv, TypeOK, Work, ds
    <2>2. st \in Status /\ on \in BOOLEAN
      BY <1>1 DEF PartnerInv, TypeOK, Work, st, on
    <2>3. open[p] \in SUBSET (1..MaxShifts) /\ started[p] \in 0..MaxShifts
      BY <1>1 DEF PartnerInv, TypeOK
    <2>4. w.starts => started[p] + 1 \in 1..MaxShifts
      BY <1>1, <2>3, PartnerAssumption
    <2>5. op \in SUBSET (1..MaxShifts)
      BY <2>3, <2>4 DEF op
    <2>6. ca \in BOOLEAN
      BY <1>1 DEF PartnerInv, TypeOK, Work, ca
    <2>7. QED
      BY <2>1, <2>2, <2>5, <2>6
  <1>4. p \in orderly => /\ GoodRows(p, ds, st, on, op, ca)
                         /\ sweep[p] = NotSwept
    BY <1>1 DEF PartnerInv, SessionsInv, Consistent, After, Alone, ds, st, on, op, ca
  <1>5. \A d \in Docs :
          docs[p][d] # Missing \/ w.docs[d] # Same => ds[d] # Missing
    BY <1>1 DEF Work, DocStatus, Missing, Same, ds
  <1>6. SubmitsComplete(w)
    BY <1>1 DEF PartnerInv, SessionsInv
  <1>a. /\ docs'[p] = ds /\ status'[p] = st
        /\ \A q \in Partners \ {p} : docs'[q] = docs[q] /\ status'[q] = status[q]
    BY <1>1, <1>2 DEF PartnerInv, TypeOK
  <1>7. TypeOK'
    <2>1. heard' \in [Partners -> BOOLEAN] /\ started' \in [Partners -> 0..MaxShifts]
      BY <1>1, <1>2, PartnerAssumption DEF PartnerInv, TypeOK, Work
    <2>2. QED
      BY <1>1, <1>2, <1>3, <2>1 DEF PartnerInv, TypeOK
  <1>8. SubmittedIsComplete'
    <2> SUFFICES ASSUME NEW q \in Partners, q \notin app, status'[q] = "KYC_SUBMITTED",
                        NEW d \in Docs
                 PROVE  docs'[q][d] # Missing
      BY <1>2 DEF SubmittedIsComplete, PendingKyc, CanSubmit, MissingRequired, Uploaded
    <2>1. CASE q # p
      BY <1>2, <2>1 DEF PartnerInv, TypeOK, SubmittedIsComplete, PendingKyc, CanSubmit,
                        MissingRequired, Uploaded
    <2>2. CASE q = p /\ w.status = "KYC_SUBMITTED"
      BY <1>5, <1>6, <1>a, <2>2 DEF SubmitsComplete, Uploaded
    <2>3. CASE q = p /\ w.status # "KYC_SUBMITTED"
      <3>1. status[p] = "KYC_SUBMITTED"
        BY <1>1, <1>2, <2>3 DEF PartnerInv, TypeOK, st
      <3>2. docs[p][d] # Missing
        BY <1>1, <2>3, <3>1 DEF PartnerInv, SubmittedIsComplete, PendingKyc, CanSubmit,
                                MissingRequired, Uploaded
      <3>3. QED
        BY <1>5, <1>a, <2>3, <3>2
    <2>4. QED
      BY <2>1, <2>2, <2>3
  <1>9. RowsInv'
    <2> SUFFICES ASSUME NEW q \in orderly
                 PROVE  GoodRows(q, docs[q], status[q], online[q], open[q], carrying[q])'
      BY <1>2 DEF RowsInv
    <2>1. CASE q # p
      <3>1. /\ docs'[q] = docs[q] /\ status'[q] = status[q] /\ online'[q] = online[q]
            /\ open'[q] = open[q] /\ carrying'[q] = carrying[q] /\ app' = app
        BY <1>2, <2>1 DEF PartnerInv, TypeOK
      <3>2. QED
        BY <3>1 DEF PartnerInv, RowsInv, GoodRows
    <2>2. CASE q = p
      <3>1. /\ docs'[p] = ds /\ status'[p] = st /\ online'[p] = on
            /\ open'[p] = op /\ carrying'[p] = ca /\ app' = app
        BY <1>1, <1>2 DEF PartnerInv, TypeOK
      <3>2. QED
        BY <1>4, <2>2, <3>1 DEF GoodRows
    <2>3. QED
      BY <2>1, <2>2
  <1>10. SweepInv'
    BY <1>1, <1>2, <1>4 DEF PartnerInv, TypeOK, SweepInv
  <1>11. SessionsInv'
    <2> SUFFICES ASSUME NEW t \in Sessions, Busy(t)'
                 PROVE  /\ Alone(t)'
                        /\ SubmitsComplete(sess[t])'
                        /\ Loaded(t)' => Blank(sess[t])'
                        /\ (sess[t].at = "commit")' => Consistent(sess[t])'
      BY DEF SessionsInv
    <2>1. \A r \in Sessions : Busy(r)' => r # s /\ Busy(r) /\ sess'[r] = sess[r]
      BY <1>2 DEF Busy, PartnerInv, TypeOK
    <2> DEFINE q == sess[t].partner
    <2>2. /\ t # s /\ Busy(t) /\ sess'[t] = sess[t] /\ q \in Partners
          /\ Alone(t) /\ SubmitsComplete(sess[t])
      BY <2>1 DEF PartnerInv, SessionsInv, TypeOK, Busy, Work
    <2>3. CASE q = p
      <3>1. q \notin orderly
        BY <1>1, <2>2, <2>3 DEF Alone
      <3>2. \A d \in Docs : docs[p][d] # Missing => docs'[p][d] # Missing
        BY <1>5, <1>a
      <3>3. SubmitsComplete(sess[t])'
        <4>1. sess'[t] = sess[t] /\ sess[t].partner = p /\ app' = app
          BY <1>2, <2>2, <2>3
        <4>2. SubmitsComplete(sess[t])
          BY <2>2
        <4>3. QED
          BY <3>2, <4>1, <4>2 DEF SubmitsComplete, Uploaded
      <3>4. QED
        BY <1>2, <2>2, <3>1, <3>3 DEF Alone, Consistent, Loaded, Blank, PartnerInv, SessionsInv
    <2>4. CASE q # p
      <3>1. /\ docs'[q] = docs[q] /\ status'[q] = status[q] /\ online'[q] = online[q]
            /\ open'[q] = open[q] /\ carrying'[q] = carrying[q]
            /\ started'[q] = started[q]
            /\ sweep' = sweep /\ app' = app /\ orderly' = orderly
        BY <1>2, <2>2, <2>4 DEF PartnerInv, TypeOK
      <3>2. Alone(t)'
        BY <2>1, <2>2, <3>1 DEF Alone, Loaded
      <3>3. SubmitsComplete(sess[t])'
        BY <2>2, <3>1 DEF SubmitsComplete, Uploaded
      <3>4. (sess[t].at = "commit")' => Consistent(sess[t])'
        BY <2>2, <3>1 DEF PartnerInv, SessionsInv, Consistent, After, GoodRows
      <3>5. QED
        BY <2>2, <3>2, <3>3, <3>4 DEF PartnerInv, SessionsInv, Loaded, Blank
    <2>5. QED
      BY <2>3, <2>4
  <1>12. QED
    BY <1>7, <1>8, <1>9, <1>10, <1>11 DEF PartnerInv

LEMMA ReleaseKept ==
    ASSUME PartnerInv, NEW p \in Partners, Release(p)
    PROVE  PartnerInv'
  <1>1. /\ carrying' = [carrying EXCEPT ![p] = FALSE]
        /\ UNCHANGED <<docs, status, online, open, started, heard, sweep, sess,
                       orderly, app>>
    BY DEF Release, kycVars
  <1>2. \A q \in Partners : carrying[q] \in BOOLEAN /\ (carrying'[q] => carrying[q])
    BY <1>1 DEF PartnerInv, TypeOK
  <1>3. TypeOK'
    BY <1>1 DEF PartnerInv, TypeOK
  <1>5. SubmittedIsComplete' /\ SweepInv'
    BY <1>1 DEF PartnerInv, SubmittedIsComplete, PendingKyc, CanSubmit, MissingRequired,
                Uploaded, SweepInv
  <1>6. RowsInv'
    BY <1>1, <1>2 DEF PartnerInv, TypeOK, RowsInv, GoodRows
  <1>7. SessionsInv'
    <2> SUFFICES ASSUME NEW s \in Sessions, Busy(s)'
                 PROVE  /\ Alone(s)'
                        /\ SubmitsComplete(sess[s])'
                        /\ Loaded(s)' => Blank(sess[s])'
                        /\ (sess[s].at = "commit")' => Consistent(sess[s])'
      BY DEF SessionsInv
    <2>1. Busy(s) /\ sess'[s] = sess[s] /\ sess[s].partner \in Partners
      BY <1>1 DEF Busy, PartnerInv, TypeOK, Work
    <2>2. Alone(s)' /\ SubmitsComplete(sess[s])' /\ (Loaded(s)' => Blank(sess[s])')
      BY <1>1, <2>1 DEF PartnerInv, SessionsInv, Alone, SubmitsComplete, Loaded, Busy,
                        Uploaded, Blank
    <2>3. ASSUME sess[s].at = "commit", sess[s].partner \in orderly
          PROVE  Consistent(sess[s])'
      <3>1. Consistent(sess[s])
        BY <2>1, <2>3 DEF PartnerInv, SessionsInv
      <3>2. After(sess[s])'
        BY <1>1, <1>2, <2>1, <2>3, <3>1 DEF Consistent, After, GoodRows
      <3>3. QED
        BY <1>1, <1>2, <2>1, <2>3, <3>1, <3>2 DEF Consistent
    <2>4. QED
      BY <1>1, <2>1, <2>2, <2>3 DEF Consistent
  <1>8. QED
    BY <1>3, <1>5, <1>6, <1>7 DEF PartnerInv

\* Positions and the clock touch no row but last_location_at.
LEMMA HeardKept ==
    ASSUME PartnerInv, NEW p \in Partners, UpdateLocation(p) \/ Silence(p)
    PROVE  PartnerInv'
  <1>1. /\ heard' \in [Partners -> BOOLEAN]
        /\ UNCHANGED <<docs, status, online, open, started, carrying, sweep, sess,
                       orderly, app>>
        /\ \A q \in orderly : sweep[q] # NotSwept /\ heard'[q] => heard[q]
    BY DEF UpdateLocation, Silence, Untouched, kycVars, dutyVars, PartnerInv, TypeOK
  <1>2. TypeOK' /\ SubmittedIsComplete' /\ RowsInv' /\ SweepInv'
    BY <1>1 DEF PartnerInv, TypeOK, SubmittedIsComplete, PendingKyc, CanSubmit,
                MissingRequired, Uploaded, RowsInv, GoodRows, SweepInv
  <1>3. SessionsInv'
    BY <1>1 DEF PartnerInv, SessionsInv, Busy, Alone, SubmitsComplete, Consistent, After,
                GoodRows, Uploaded, Loaded, Blank
  <1>4. QED
    BY <1>2, <1>3 DEF PartnerInv

LEMMA SweepLoadKept ==
    ASSUME PartnerInv, SweepLoad
    PROVE  PartnerInv'
  <1>1. PICK f \in [Partners -> 0..NotSwept] :
          /\ \A p \in Partners :
               IF ~Sweepable(p) THEN f[p] = NotSwept
               ELSE IF open[p] = {} THEN f[p] = NoShift ELSE f[p] \in open[p]
          /\ sweep' = f
    BY DEF SweepLoad
  <1>2. UNCHANGED <<docs, status, online, open, started, carrying, heard, sess,
                    orderly, app>>
    BY DEF SweepLoad, kycVars, dutyVars
  <1>3. TypeOK' /\ SubmittedIsComplete' /\ RowsInv'
    BY <1>1, <1>2 DEF PartnerInv, TypeOK, SubmittedIsComplete, PendingKyc, CanSubmit,
                      MissingRequired, Uploaded, RowsInv, GoodRows
  <1>4. SweepInv'
    <2> SUFFICES ASSUME NEW p \in orderly, f[p] # NotSwept
                 PROVE  /\ online[p] /\ ~heard[p]
                        /\ p \notin app => open[p] = {f[p]}
      BY <1>1, <1>2 DEF SweepInv
    <2>1. p \in Partners /\ Sweepable(p)
      BY <1>1 DEF PartnerInv, TypeOK
    <2>2. online[p] /\ ~heard[p]
      BY <2>1 DEF Sweepable, Stale
    <2>3. p \notin app => \E k \in 1..MaxShifts : open[p] = {k}
      BY <2>2 DEF PartnerInv, RowsInv, GoodRows
    <2>4. QED
      BY <1>1, <2>1, <2>2, <2>3
  <1>5. SessionsInv'
    <2>1. \A p \in orderly : sweep'[p] # NotSwept => Untouched(p)
      BY <1>1 DEF Sweepable, PartnerInv, TypeOK
    <2>2. QED
      BY <1>2, <2>1 DEF PartnerInv, SessionsInv, Busy, Alone, SubmitsComplete, Consistent,
                        After, GoodRows, Uploaded, Loaded, Blank, Untouched
  <1>6. QED
    BY <1>3, <1>4, <1>5 DEF PartnerInv

LEMMA SweepCommitKept ==
    ASSUME PartnerInv, SweepCommit
    PROVE  PartnerInv'
  <1>1. /\ online' = [p \in Partners |-> online[p] /\ sweep[p] = NotSwept]
        /\ open' = [p \in Partners |-> open[p] \ {sweep[p]}]
        /\ sweep' = [p \in Partners |-> NotSwept]
        /\ UNCHANGED <<docs, status, started, carrying, heard, sess, orderly, app>>
    BY DEF SweepCommit, kycVars
  <1>2. \A p \in Partners : /\ open[p] \in SUBSET (1..MaxShifts)
                            /\ sweep[p] = NotSwept => open[p] \ {sweep[p]} = open[p]
    BY PartnerAssumption DEF PartnerInv, TypeOK, NotSwept
  <1>3. TypeOK'
    <2>1. open' \in [Partners -> SUBSET (1..MaxShifts)] /\ online' \in [Partners -> BOOLEAN]
      BY <1>1, <1>2 DEF PartnerInv, TypeOK
    <2>2. sweep' \in [Partners -> 0..NotSwept]
      BY <1>1, PartnerAssumption DEF NotSwept
    <2>3. QED
      BY <1>1, <2>1, <2>2 DEF PartnerInv, TypeOK
  <1>4. SubmittedIsComplete' /\ SweepInv'
    BY <1>1 DEF PartnerInv, SubmittedIsComplete, PendingKyc, CanSubmit, MissingRequired,
                Uploaded, SweepInv, TypeOK
  <1>5. \A p \in Partners : sweep[p] = NotSwept =>
          /\ online'[p] = online[p] /\ open'[p] = open[p] /\ sweep'[p] = sweep[p]
    BY <1>1, <1>2 DEF PartnerInv, TypeOK
  <1>6. RowsInv'
    <2> SUFFICES ASSUME NEW p \in orderly
                 PROVE  GoodRows(p, docs[p], status[p], online'[p], open'[p], carrying[p])
      BY <1>1 DEF RowsInv, GoodRows
    <2>1. /\ p \in Partners
          /\ GoodRows(p, docs[p], status[p], online[p], open[p], carrying[p])
      BY DEF PartnerInv, RowsInv, TypeOK
    <2>2. CASE sweep[p] = NotSwept
      BY <1>5, <2>1, <2>2
    <2>3. CASE sweep[p] # NotSwept
      <3>1. ~online'[p] /\ (p \notin app => open'[p] = {})
        BY <1>1, <2>1, <2>3 DEF PartnerInv, SweepInv
      <3>2. QED
        BY <2>1, <3>1 DEF GoodRows
    <2>4. QED
      BY <2>2, <2>3
  <1>7. SessionsInv'
    <2> SUFFICES ASSUME NEW s \in Sessions, Busy(s)'
                 PROVE  /\ Alone(s)'
                        /\ SubmitsComplete(sess[s])'
                        /\ Loaded(s)' => Blank(sess[s])'
                        /\ (sess[s].at = "commit")' => Consistent(sess[s])'
      BY DEF SessionsInv
    <2>1. Busy(s) /\ sess'[s] = sess[s] /\ sess[s].partner \in Partners
      BY <1>1 DEF Busy, PartnerInv, TypeOK, Work
    <2>2. sess[s].partner \in orderly => sweep[sess[s].partner] = NotSwept
      BY <2>1 DEF PartnerInv, SessionsInv, Alone
    <2>3. /\ Alone(s)' /\ SubmitsComplete(sess[s])' /\ (Loaded(s)' => Blank(sess[s])')
      BY <1>1, <1>5, <2>1, <2>2 DEF PartnerInv, SessionsInv, Alone, SubmitsComplete, Loaded,
                                   Busy, Uploaded, Blank
    <2>4. (sess[s].at = "commit")' => Consistent(sess[s])'
      BY <1>1, <1>5, <2>1, <2>2 DEF PartnerInv, SessionsInv, Consistent, After, GoodRows
    <2>5. QED
      BY <2>3, <2>4
  <1>8. QED
    BY <1>3, <1>4, <1>6, <1>7 DEF PartnerInv

LEMMA StutterKept == PartnerInv /\ UNCHANGED vars => PartnerInv'
  <1> SUFFICES ASSUME PartnerInv, UNCHANGED vars PROVE PartnerInv'
    OBVIOUS
  <1>1. UNCHANGED <<docs, status, online, open, started, carrying, heard, sweep, sess,
                    orderly, app>>
    BY DEF vars, kycVars, dutyVars
  <1>2. TypeOK' /\ SubmittedIsComplete' /\ RowsInv' /\ SweepInv'
    BY <1>1 DEF PartnerInv, TypeOK, SubmittedIsComplete, PendingKyc, CanSubmit,
                MissingRequired, Uploaded, RowsInv, GoodRows, SweepInv
  <1>3. SessionsInv'
    BY <1>1 DEF PartnerInv, SessionsInv, Busy, Alone, SubmitsComplete, Consistent, After,
                GoodRows, Uploaded, Loaded, Blank
  <1>4. QED
    BY <1>2, <1>3 DEF PartnerInv

LEMMA NextKept == PartnerInv /\ [Next]_vars => PartnerInv'
  <1> SUFFICES ASSUME PartnerInv, [Next]_vars PROVE PartnerInv'
    OBVIOUS
  <1>1. ASSUME NEW s \in Sessions, NEW p \in Partners, Request(s, p) PROVE PartnerInv'
    BY <1>1, RequestKept
  <1>2. ASSUME NEW s \in Sessions, Handler(s) PROVE PartnerInv'
    BY <1>2, HandlerWell, DecideKept, EndKept
  <1>3. ASSUME NEW s \in Sessions, Commit(s) PROVE PartnerInv'
    BY <1>3, CommitKept
  <1>4. ASSUME NEW s \in Sessions, End(s) PROVE PartnerInv'
    BY <1>4, EndKept
  <1>5. ASSUME NEW p \in Partners, World(p) PROVE PartnerInv'
    BY <1>5, ReleaseKept, HeardKept DEF World
  <1>6. CASE SweepLoad \/ SweepCommit
    BY <1>6, SweepLoadKept, SweepCommitKept
  <1>7. CASE UNCHANGED vars
    BY <1>7, StutterKept
  <1>8. QED
    BY <1>1, <1>2, <1>3, <1>4, <1>5, <1>6, <1>7 DEF Next

-----------------------------------------------------------------------------
(* Theorems *)

\* The inductive invariant holds, whatever overlaps.
THEOREM PartnerInvariant == Spec => []PartnerInv
  BY InitKept, NextKept, PTL DEF Spec

\* Rows and sessions keep their types, for any partners, documents, sessions.
THEOREM PartnerTypeCorrect == Spec => []TypeOK
  <1>1. PartnerInv => TypeOK
    BY DEF PartnerInv
  <1>2. QED
    BY <1>1, PartnerInvariant, PTL

\* A partner on the admin's list of pending partners has uploaded everything,
\* however uploads and reviews overlap; only the app submits without.
THEOREM PendingHasUploaded == Spec => []SubmittedIsComplete
  <1>1. PartnerInv => SubmittedIsComplete
    BY DEF PartnerInv
  <1>2. QED
    BY <1>1, PartnerInvariant, PTL

\* Without overlap the last upload submits.
THEOREM LastUploadSubmits == Spec => []UploadsSubmit
  <1>1. PartnerInv => UploadsSubmit
    BY DEF PartnerInv, RowsInv, GoodRows, UploadsSubmit, CanSubmit, MissingRequired, Uploaded
  <1>2. QED
    BY <1>1, PartnerInvariant, PTL

\* Without overlap no approved partner has a rejected document.
THEOREM ReviewsStand == Spec => []ReviewStands
  <1>1. PartnerInv => ReviewStands
    BY DEF PartnerInv, RowsInv, GoodRows, ReviewStands, ApprovedKyc, RejectedDocs
  <1>2. QED
    BY <1>1, PartnerInvariant, PTL

\* Without overlap whoever is on duty or carries an order was approved.
THEOREM DutyAfterApproval == Spec => []OnDutyWasApproved
  <1>1. PartnerInv => OnDutyWasApproved
    BY DEF PartnerInv, RowsInv, GoodRows, OnDutyWasApproved
  <1>2. QED
    BY <1>1, PartnerInvariant, PTL

\* Without overlap a partner on duty has one open shift, any other none.
THEOREM OneOpenShift == Spec => []OneShiftOnDuty
  <1>1. PartnerInv => OneShiftOnDuty
    <2> SUFFICES ASSUME PartnerInv, NEW p \in orderly \ app
                 PROVE  /\ open[p] = CurrentShift(p)
                        /\ online[p] => open[p] # {}
      BY DEF OneShiftOnDuty
    <2>1. IF online[p] THEN \E k \in 1..MaxShifts : open[p] = {k} ELSE open[p] = {}
      BY DEF PartnerInv, RowsInv, GoodRows
    <2>2. QED
      BY <2>1, PartnerAssumption DEF CurrentShift, Newest
  <1>2. QED
    BY <1>1, PartnerInvariant, PTL

\* Without overlap a partner who carries an order and is heard from stays on
\* duty.
THEOREM CarrierStaysOnDuty == Spec => NotCutOff
  <1>1. PartnerInv /\ [Next]_vars =>
          [\A p \in orderly \ app :
             online[p] /\ ~online'[p] /\ carrying[p] => ~heard[p]]_vars
    <2> SUFFICES ASSUME PartnerInv, Next, NEW p \in orderly \ app,
                        online[p], ~online'[p], carrying[p]
                 PROVE  ~heard[p]
      OBVIOUS
    <2>1. p \in Partners
      BY DEF PartnerInv, TypeOK
    <2>2. ASSUME NEW s \in Sessions, Commit(s) PROVE ~heard[p]
      <3>1. sess[s] \in Work /\ Busy(s) /\ sess[s].at = "commit"
        BY <2>2 DEF Commit, PartnerInv, TypeOK, Busy
      <3>2. sess[s].partner = p /\ sess[s].online = "FALSE"
        BY <2>1, <2>2, <3>1 DEF Commit, PartnerInv, TypeOK, Work
      <3>3. QED
        BY <3>1, <3>2 DEF PartnerInv, SessionsInv, Consistent
    <2>3. CASE SweepCommit
      BY <2>1, <2>3 DEF SweepCommit, PartnerInv, SweepInv
    <2>4. ASSUME online' = online PROVE FALSE
      BY <2>4
    <2>5. ASSUME NEW s \in Sessions, DecidesWell(s) \/ End(s) PROVE online' = online
      BY <2>5 DEF DecidesWell, End, dutyVars
    <2>6. CASE \E s \in Sessions : (\E q \in Partners : Request(s, q)) \/ Handler(s) \/ End(s)
      BY <2>4, <2>5, <2>6, HandlerWell DEF Request, dutyVars
    <2>7. CASE (\E q \in Partners : World(q)) \/ SweepLoad
      BY <2>4, <2>7 DEF World, Release, UpdateLocation, Silence, SweepLoad, dutyVars
    <2>8. QED
      BY <2>2, <2>3, <2>6, <2>7 DEF Next
  <1>2. QED
    BY <1>1, PartnerInvariant, PTL DEF Spec, NotCutOff
=============================================================================
