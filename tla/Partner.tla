------------------------------ MODULE Partner ------------------------------
(***************************************************************************)
(* A delivery partner from the first document to the end of a shift: the   *)
(* KYC documents and their review, going on and off duty, assignments, and *)
(* the task that takes silent partners off duty.                           *)
(*                                                                         *)
(* A request is a transaction in three steps.  It loads the partner's and  *)
(* the user's row when it authenticates (or looks the partner up), decides *)
(* with them what to write, and writes it when it commits.  An attribute   *)
(* that is set to the value it was loaded with is not written at all; any  *)
(* other one is written as an absolute value, whatever was committed since.*)
(* Statements that are executed at once lock their rows until the commit.  *)
(*                                                                         *)
(* Partners differ in two ways, which the initial state chooses: the       *)
(* transactions on an orderly partner never overlap, and only a partner of *)
(* the Flutter app is served by the handlers of flutter_api.py.            *)
(***************************************************************************)
EXTENDS Naturals

CONSTANTS
    Partners,    \* the delivery partners
    Docs,        \* REQUIRED_DOC_TYPES
    AppDocs,     \* the documents that the form of the app may contain
    Sessions,    \* the requests that may be in flight at once
    MaxShifts    \* bounds the shifts that a partner starts

ASSUME PartnerAssumption ==
    AppDocs \subseteq Docs /\ Docs # {} /\ MaxShifts \in Nat

Status    == {"PENDING_KYC", "KYC_SUBMITTED", "KYC_APPROVED", "KYC_REJECTED"}
DocStatus == {"PENDING", "APPROVED", "REJECTED"}
Missing   == "MISSING"    \* a document row that is not there
Same      == "SAME"       \* an attribute that the transaction does not write

VARIABLES
    docs,       \* kyc_documents.status by partner and type
    status,     \* users.partner_status
    online,     \* delivery_partners.is_online
    heard,      \* is last_location_at at most 10 minutes old?
    open,       \* the partner_shifts rows without ended_at
    started,    \* how many shifts the partner has started
    carrying,   \* has the partner an assignment in an active status?
    sweep,      \* the shift that the cleanup task will end, by partner
    sess,       \* requests in flight
    orderly,    \* partners whose transactions never overlap
    app         \* partners of the Flutter app

kycVars  == <<docs, status>>
dutyVars == <<online, open, started, carrying>>
vars == <<kycVars, dutyVars, heard, sweep, sess, orderly, app>>

-----------------------------------------------------------------------------
(* Transactions *)

NotSwept == MaxShifts + 1     \* the cleanup task leaves the partner alone
NoShift  == 0                 \* it ends no shift

Work ==
    [partner : Partners,
     at : {"loaded", "commit"},
     seen : Status, seenOnline : BOOLEAN,     \* loaded with the request
     docs : [Docs -> DocStatus \cup {Same}],  \* what it is going to write
     status : Status \cup {Same},
     online : {"TRUE", "FALSE", Same},
     inserts : SUBSET Docs,                   \* rows it believes missing
     locks : SUBSET Docs,                     \* rows its statements locked
     starts : BOOLEAN, ends : SUBSET (1..MaxShifts),    \* shifts
     fresh : BOOLEAN,                         \* last_location_at
     assigns : BOOLEAN]                       \* an assignment

Idle == [at |-> "idle"]
Busy(s) == sess[s] # Idle

Untouched(p) ==
    /\ sweep[p] = NotSwept
    /\ \A s \in Sessions : Busy(s) => sess[s].partner # p

\* Is a row of these documents of p locked by a request other than s?
Locked(s, p, ds) ==
    \E t \in Sessions \ {s} :
        Busy(t) /\ sess[t].partner = p /\ sess[t].locks \cap ds # {}

Keep == [d \in Docs |-> Same]
Write(loaded, new) == IF loaded = new THEN Same ELSE new

\* What was loaded matters no more once the handler has decided.
Decide(s, work) ==
    /\ sess' = [sess EXCEPT ![s] = [work EXCEPT !.at = "commit",
                                 !.seen = "PENDING_KYC", !.seenOnline = FALSE]]
    /\ UNCHANGED <<kycVars, dutyVars, heard, sweep, orderly, app>>

\* The partner authenticates, or an admin's request looks the partner up.
Request(s, p) ==
    /\ ~Busy(s)
    /\ p \in orderly => Untouched(p)
    /\ sess' = [sess EXCEPT ![s] =
         [partner |-> p, at |-> "loaded", seen |-> status[p],
          seenOnline |-> online[p], docs |-> Keep, status |-> Same,
          online |-> Same, inserts |-> {}, locks |-> {}, starts |-> FALSE,
          ends |-> {}, fresh |-> FALSE, assigns |-> FALSE]]
    /\ UNCHANGED <<kycVars, dutyVars, heard, sweep, orderly, app>>

Loaded(s) == Busy(s) /\ sess[s].at = "loaded"

\* A request that is refused, that only reads, or whose transaction fails.
End(s) ==
    /\ Busy(s)
    /\ sess' = [sess EXCEPT ![s] = Idle]
    /\ UNCHANGED <<kycVars, dutyVars, heard, sweep, orderly, app>>

\* An inserted row that meanwhile exists violates a unique constraint, and a
\* written row that is locked makes the flush wait.
Commit(s) ==
    LET w == sess[s]
        p == w.partner
        written == {d \in Docs : w.docs[d] # Same}
    IN  /\ Busy(s) /\ w.at = "commit"
        /\ w.starts => started[p] < MaxShifts     \* the bound
        /\ \A d \in w.inserts : docs[p][d] = Missing
        /\ ~Locked(s, p, written)
        /\ docs' = [docs EXCEPT ![p] =
              [d \in Docs |-> IF d \in written THEN w.docs[d] ELSE @[d]]]
        /\ status' = [status EXCEPT ![p] = IF w.status = Same THEN @ ELSE w.status]
        /\ online' = [online EXCEPT ![p] =
              IF w.online = Same THEN @ ELSE w.online = "TRUE"]
        /\ heard' = [heard EXCEPT ![p] = @ \/ w.fresh]
        /\ started' = [started EXCEPT ![p] = IF w.starts THEN @ + 1 ELSE @]
        /\ open' = [open EXCEPT ![p] =
              (@ \ w.ends) \cup (IF w.starts THEN {started[p] + 1} ELSE {})]
        /\ carrying' = [carrying EXCEPT ![p] = @ \/ w.assigns]
        /\ sess' = [sess EXCEPT ![s] = Idle]
        /\ UNCHANGED <<sweep, orderly, app>>

-----------------------------------------------------------------------------
(* KYC: documents and their review *)

Uploaded(p, d) == docs[p][d] # Missing

\* Mutant: the documents are counted without the one being uploaded.
Complete_Committed(p, d) == \A e \in Docs : Uploaded(p, e)

\* upload_document reads the rows after its upsert: the committed ones and
\* its own.
Complete(p, d) == \A e \in Docs : e = d \/ Uploaded(p, e)

\* Mutant: every upload submits, whatever the status is.
UploadDocument_Resubmits(s, d) ==
    LET w == sess[s]
        p == w.partner
    IN  /\ Loaded(s)
        /\ ~Locked(s, p, {d})
        /\ Decide(s, [w EXCEPT
             !.docs[d] = "PENDING", !.locks = {d},
             !.status = IF Complete(p, d) THEN Write(w.seen, "KYC_SUBMITTED")
                        ELSE Same])

\* The upsert locks the row at once.
UploadDocument(s, d) ==
    LET w == sess[s]
        p == w.partner
    IN  /\ Loaded(s)
        /\ ~Locked(s, p, {d})
        /\ Decide(s, [w EXCEPT
             !.docs[d] = "PENDING", !.locks = {d},
             !.status = IF Complete(p, d) /\ w.seen = "PENDING_KYC"
                        THEN "KYC_SUBMITTED" ELSE Same])

\* The UPDATE of all rows is executed, and locks them, at once.
ApproveKyc(s) ==
    LET w == sess[s]
        p == w.partner
        there == {d \in Docs : Uploaded(p, d)}
    IN  /\ Loaded(s)
        /\ ~Locked(s, p, there)
        /\ Decide(s, [w EXCEPT
             !.docs = [d \in Docs |-> IF d \in there THEN "APPROVED" ELSE Same],
             !.locks = there,
             !.status = Write(w.seen, "KYC_APPROVED")])

\* Mutant: the document is rejected and the partner is not.
RejectKyc_StatusKept(s, d) ==
    LET w == sess[s]
    IN  /\ Loaded(s)
        /\ Uploaded(w.partner, d)
        /\ Decide(s, [w EXCEPT
             !.docs[d] = Write(docs[w.partner][d], "REJECTED")])

RejectKyc(s, d) ==
    LET w == sess[s]
    IN  /\ Loaded(s)
        /\ Uploaded(w.partner, d)
        /\ Decide(s, [w EXCEPT
             !.docs[d] = Write(docs[w.partner][d], "REJECTED"),
             !.status = Write(w.seen, "KYC_REJECTED")])

\* The form of the app brings up to three documents and submits at once.
SubmitAgentKyc(s, ds) ==
    LET w == sess[s]
        p == w.partner
    IN  /\ Loaded(s) /\ p \in app
        /\ Decide(s, [w EXCEPT
             !.docs = [d \in Docs |-> IF d \in ds
                                      THEN Write(docs[p][d], "PENDING") ELSE Same],
             !.inserts = {d \in ds : ~Uploaded(p, d)},
             !.status = Write(w.seen, "KYC_SUBMITTED")])

\* Approving in the app leaves the documents alone; rejecting there rejects
\* some document, if there is one; any other word rejects the partner only.
UpdateAgentKycStatus(s) ==
    LET w == sess[s]
        p == w.partner
    IN  /\ Loaded(s) /\ p \in app
        /\ \/ Decide(s, [w EXCEPT !.status = Write(w.seen, "KYC_APPROVED")])
           \/ \E d \in Docs :
                /\ Uploaded(p, d)
                /\ Decide(s, [w EXCEPT
                     !.docs[d] = Write(docs[p][d], "REJECTED"),
                     !.status = Write(w.seen, "KYC_REJECTED")])
           \/ Decide(s, [w EXCEPT !.status = Write(w.seen, "KYC_REJECTED")])

\* What the partner sees of the documents, and what the admin sees.
MissingRequired(p) == {d \in Docs : ~Uploaded(p, d)}
CanSubmit(p) == MissingRequired(p) = {}
PendingKyc == {p \in Partners : status[p] = "KYC_SUBMITTED"}
ApprovedKyc == {p \in Partners : status[p] = "KYC_APPROVED"}
RejectedDocs(p) == {d \in Docs : docs[p][d] = "REJECTED"}

\* The partner's own submit changes nothing: the last upload has submitted.
SubmitKyc(s) ==
    /\ Loaded(s)
    /\ CanSubmit(sess[s].partner) /\ sess[s].seen = "KYC_SUBMITTED"
    /\ End(s)

-----------------------------------------------------------------------------
(* Duty *)

Approved(s) == Busy(s) /\ sess[s].seen = "KYC_APPROVED"     \* require_approved_partner

StartDuty(s) ==
    LET w == sess[s]
        p == w.partner
    IN  /\ Loaded(s) /\ Approved(s)
        /\ ~w.seenOnline
        /\ started[p] < MaxShifts
        /\ Decide(s, [w EXCEPT !.online = "TRUE", !.fresh = TRUE,
                               !.starts = TRUE])

\* The newest open shift, if there is one.
Newest(p) == {k \in open[p] : \A j \in open[p] : j <= k}

\* What the partner sees of the shift under way.
CurrentShift(p) == IF online[p] THEN Newest(p) ELSE {}

\* The app's handler starts a shift under the same conditions.
AppStartDuty(s) == Busy(s) /\ sess[s].partner \in app /\ StartDuty(s)

\* Mutant: stop does not look for an active assignment.
GoOffline_Carrying(s) ==
    LET w == sess[s]
    IN  /\ Loaded(s)
        /\ w.seenOnline
        /\ Decide(s, [w EXCEPT !.online = "FALSE", !.ends = Newest(w.partner)])

GoOffline(s) ==
    LET w == sess[s]
    IN  /\ Loaded(s)
        /\ w.seenOnline
        /\ ~carrying[w.partner]
        /\ Decide(s, [w EXCEPT !.online = "FALSE", !.ends = Newest(w.partner)])

StopDuty(s) == Approved(s) /\ GoOffline(s)

\* The app's handler does not ask for the approval.
AppStopDuty(s) == Busy(s) /\ sess[s].partner \in app /\ GoOffline(s)

\* The switch of the app knows neither shifts nor assignments nor approvals.
AgentOnlineStatus(s, b) ==
    LET w == sess[s]
    IN  /\ Loaded(s) /\ w.partner \in app
        /\ Decide(s, [w EXCEPT
             !.online = IF w.seenOnline = b THEN Same
                        ELSE IF b THEN "TRUE" ELSE "FALSE",
             !.fresh = TRUE])

-----------------------------------------------------------------------------
(* Assignments, positions, the cleanup task *)

\* The dispatcher finds the partner among the free ones on duty; the row is
\* inserted later.
Assign(s) ==
    LET w == sess[s]
        p == w.partner
    IN  /\ Loaded(s)
        /\ online[p] /\ heard[p] /\ ~carrying[p]
        /\ Decide(s, [w EXCEPT !.assigns = TRUE])

\* Delivered, failed, rejected or timed out.
Release(p) ==
    /\ carrying[p]
    /\ carrying' = [carrying EXCEPT ![p] = FALSE]
    /\ UNCHANGED <<kycVars, online, open, started, heard, sweep, sess,
                   orderly, app>>

\* A position arrives, over the WebSocket or as a request.  Those of a partner
\* off duty are left out: nobody reads when they came.
UpdateLocation(p) ==
    /\ online[p]
    /\ p \in orderly => Untouched(p)
    /\ heard' = [heard EXCEPT ![p] = TRUE]
    /\ UNCHANGED <<kycVars, dutyVars, sweep, sess, orderly, app>>

\* Ten minutes pass.
Silence(p) ==
    /\ online[p]
    /\ heard' = [heard EXCEPT ![p] = FALSE]
    /\ UNCHANGED <<kycVars, dutyVars, sweep, sess, orderly, app>>

Stale(p) == online[p] /\ ~heard[p]

Sweepable(p) == Stale(p) /\ (p \in orderly => Untouched(p))

\* Every five minutes: the stale partners, and of each some open shift.
SweepLoad ==
    /\ \A p \in Partners : sweep[p] = NotSwept
    /\ \E p \in Partners : Sweepable(p)
    /\ \E f \in [Partners -> 0..NotSwept] :
         /\ \A p \in Partners :
              IF ~Sweepable(p) THEN f[p] = NotSwept
              ELSE IF open[p] = {} THEN f[p] = NoShift ELSE f[p] \in open[p]
         /\ sweep' = f
    /\ UNCHANGED <<kycVars, dutyVars, heard, sess, orderly, app>>

\* Mutant: the task ends no shift.
SweepCommit_ShiftsStay ==
    /\ \E p \in Partners : sweep[p] # NotSwept
    /\ online' = [p \in Partners |-> online[p] /\ sweep[p] = NotSwept]
    /\ sweep' = [p \in Partners |-> NotSwept]
    /\ UNCHANGED <<kycVars, open, started, carrying, heard, sess, orderly, app>>

SweepCommit ==
    /\ \E p \in Partners : sweep[p] # NotSwept
    /\ online' = [p \in Partners |-> online[p] /\ sweep[p] = NotSwept]
    /\ open' = [p \in Partners |-> open[p] \ {sweep[p]}]
    /\ sweep' = [p \in Partners |-> NotSwept]
    /\ UNCHANGED <<kycVars, started, carrying, heard, sess, orderly, app>>

-----------------------------------------------------------------------------
(* The specification *)

Init ==
    /\ docs = [p \in Partners |-> [d \in Docs |-> Missing]]
    /\ status = [p \in Partners |-> "PENDING_KYC"]
    /\ online = [p \in Partners |-> FALSE]
    /\ heard = [p \in Partners |-> FALSE]
    /\ open = [p \in Partners |-> {}]
    /\ started = [p \in Partners |-> 0]
    /\ carrying = [p \in Partners |-> FALSE]
    /\ sweep = [p \in Partners |-> NotSwept]
    /\ sess = [s \in Sessions |-> Idle]
    /\ orderly \in SUBSET Partners
    /\ app \in SUBSET Partners

Handler(s) ==
    \/ \E d \in Docs : UploadDocument(s, d) \/ RejectKyc(s, d)
    \/ SubmitKyc(s)
    \/ ApproveKyc(s)
    \/ \E ds \in SUBSET AppDocs : SubmitAgentKyc(s, ds)
    \/ UpdateAgentKycStatus(s)
    \/ StartDuty(s) \/ AppStartDuty(s)
    \/ StopDuty(s) \/ AppStopDuty(s)
    \/ \E b \in BOOLEAN : AgentOnlineStatus(s, b)
    \/ Assign(s)

World(p) ==
    \/ Release(p)
    \/ UpdateLocation(p) \/ Silence(p)

Next ==
    \/ \E s \in Sessions :
         \/ \E p \in Partners : Request(s, p)
         \/ Handler(s)
         \/ Commit(s)
         \/ End(s)
    \/ \E p \in Partners : World(p)
    \/ SweepLoad
    \/ SweepCommit

Spec == Init /\ [][Next]_vars

-----------------------------------------------------------------------------
(* Properties *)

\* Every variable has values of its kind.
TypeOK ==
    /\ docs \in [Partners -> [Docs -> DocStatus \cup {Missing}]]
    /\ status \in [Partners -> Status]
    /\ online \in [Partners -> BOOLEAN]
    /\ heard \in [Partners -> BOOLEAN]
    /\ open \in [Partners -> SUBSET (1..MaxShifts)]
    /\ started \in [Partners -> 0..MaxShifts]
    /\ carrying \in [Partners -> BOOLEAN]
    /\ sweep \in [Partners -> 0..NotSwept]
    /\ sess \in [Sessions -> Work \cup {Idle}]
    /\ orderly \in SUBSET Partners
    /\ app \in SUBSET Partners

\* However uploads and reviews overlap, a partner that the admin's list of
\* pending partners shows has uploaded every required document
\* (kyc_service.py:107-120); only the form of the app submits without.
SubmittedIsComplete == \A p \in PendingKyc \ app : CanSubmit(p)

\* As long as transactions on a partner do not overlap, the upload of the last
\* required document submits: nobody who may submit stays in PENDING_KYC,
\* where submit is refused and no list of the admin's shows them.
UploadsSubmit ==
    \A p \in orderly : CanSubmit(p) => status[p] # "PENDING_KYC"

\* As long as they do not overlap, approvals, rejections and uploads leave no
\* approved partner with a rejected document, in whatever order they come.
ReviewStands ==
    \A p \in orderly \ app : p \in ApprovedKyc => RejectedDocs(p) = {}

\* As long as they do not overlap, whoever is on duty or carries an order has
\* passed the review at some time: a later upload cannot send them back to
\* the queue.
OnDutyWasApproved ==
    \A p \in orderly \ app :
        online[p] \/ carrying[p] => status[p] \in {"KYC_APPROVED", "KYC_REJECTED"}

\* As long as they do not overlap, a partner on duty has one open shift, the
\* one the status shows, and any other none (SPEC2.md:413, 425, 1034), over any
\* sequence of starts, stops, reviews, silences and cleanups.
OneShiftOnDuty ==
    \A p \in orderly \ app :
        /\ open[p] = CurrentShift(p)
        /\ online[p] => open[p] # {}

\* As long as they do not overlap, a partner who carries an order and is heard
\* from is not taken off duty, neither by a stop nor by the cleanup task.
NotCutOff ==
    [][\A p \in orderly \ app :
         online[p] /\ ~online'[p] /\ carrying[p] => ~heard[p]]_vars
=============================================================================
