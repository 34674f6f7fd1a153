-------------------------------- MODULE Otp --------------------------------
(***************************************************************************)
(* One-time passwords (utils/otp.py): a phone asks for a code and answers  *)
(* with it.  Redis keeps the code of a phone with the number of wrong      *)
(* answers to it, and a cooldown; every access to Redis is a step of its   *)
(* own, and keys expire.                                                   *)
(*                                                                         *)
(* The codes of a phone are numbered in the order in which they are sent.  *)
(* What has become of each is recorded beside the state of the code.       *)
(***************************************************************************)
EXTENDS Requests

CONSTANTS
    Phones,
    MaxCodes,       \* bounds the codes sent to a phone
    MaxAttempts     \* OTP_MAX_ATTEMPTS

ASSUME OtpAssumption == MaxCodes \in Nat /\ MaxAttempts \in Nat \ {0}

Codes == 1..MaxCodes

VARIABLES
    otp,        \* Redis otp:{phone}: the code, 0 for none, and its attempts
    cooldown,   \* Redis otp:cooldown:{phone}
    sent,       \* how many codes have been sent to the phone
    rights,     \* right answers to each code
    wrongs,     \* wrong answers that were given while it was the code
    otpReq,     \* requests in flight
    patient     \* phones that wait for each answer

history == <<rights, wrongs>>
otpVars == <<otp, cooldown, sent, history, otpReq, patient>>

NoCode == [code |-> 0, attempts |-> 0]

-----------------------------------------------------------------------------
(* send_otp *)

Asks(s, p) ==
    /\ otpReq[s] = Idle
    /\ p \in patient => AloneOn(otpReq, "phone", p)

\* The cooldown is read first.
SendOtp(s, p) ==
    /\ Asks(s, p)
    /\ ~cooldown[p] /\ sent[p] < MaxCodes
    /\ otpReq' = [otpReq EXCEPT ![s] = [phone |-> p, at |-> "store", read |-> NoCode]]
    /\ UNCHANGED <<otp, cooldown, sent, history, patient>>

StoreOtp(s) ==
    LET p == otpReq[s].phone
    IN  /\ otpReq[s] # Idle /\ otpReq[s].at = "store" /\ sent[p] < MaxCodes
        /\ otp' = [otp EXCEPT ![p] = [code |-> sent[p] + 1, attempts |-> 0]]
        /\ sent' = [sent EXCEPT ![p] = @ + 1]
        /\ otpReq' = Goes(otpReq, s, "cooldown")
        /\ UNCHANGED <<cooldown, history, patient>>

StoreCooldown(s) ==
    /\ otpReq[s] # Idle /\ otpReq[s].at = "cooldown"
    /\ cooldown' = [cooldown EXCEPT ![otpReq[s].phone] = TRUE]
    /\ otpReq' = Ends(otpReq, s)
    /\ UNCHANGED <<otp, sent, history, patient>>

-----------------------------------------------------------------------------
(* verify_otp *)

\* Where the answer leads, by what was read.  The code tests before if the
\* attempts have come to the limit; none such is ever stored.
Verdict(read, answer) ==
    CASE answer = read.code -> "accept"
      [] answer # read.code /\ read.attempts + 1 < MaxAttempts -> "count"
      [] answer # read.code /\ read.attempts + 1 >= MaxAttempts -> "block"

\* The phone answers with any code that it has been sent, or with none of them.
VerifyOtp(s, p, answer) ==
    /\ Asks(s, p)
    /\ otp[p] # NoCode /\ answer <= sent[p]
    /\ otpReq' = [otpReq EXCEPT ![s] =
                    [phone |-> p, at |-> Verdict(otp[p], answer), read |-> otp[p]]]
    /\ UNCHANGED <<otp, cooldown, sent, history, patient>>

\* Mutant: the counter starts again.
CountAttempt_Anew(s) ==
    LET p == otpReq[s].phone
        read == otpReq[s].read
    IN  /\ otpReq[s] # Idle /\ otpReq[s].at = "count"
        /\ otp' = [otp EXCEPT ![p] = [read EXCEPT !.attempts = 1]]
        /\ wrongs' = [wrongs EXCEPT ![p][read.code] = @ + 1]
        /\ otpReq' = Ends(otpReq, s)
        /\ UNCHANGED <<cooldown, sent, rights, patient>>

\* The code that was read is stored again, with one attempt more.
CountAttempt(s) ==
    LET p == otpReq[s].phone
        read == otpReq[s].read
    IN  /\ otpReq[s] # Idle /\ otpReq[s].at = "count"
        /\ otp' = [otp EXCEPT ![p] = [read EXCEPT !.attempts = @ + 1]]
        /\ wrongs' = [wrongs EXCEPT ![p][read.code] = @ + 1]
        /\ otpReq' = Ends(otpReq, s)
        /\ UNCHANGED <<cooldown, sent, rights, patient>>

\* The last wrong answer deletes the code, whichever is there by now.
BlockOtp(s) ==
    LET p == otpReq[s].phone
    IN  /\ otpReq[s] # Idle /\ otpReq[s].at = "block"
        /\ otp' = [otp EXCEPT ![p] = NoCode]
        /\ wrongs' = [wrongs EXCEPT ![p][otpReq[s].read.code] = @ + 1]
        /\ otpReq' = Ends(otpReq, s)
        /\ UNCHANGED <<cooldown, sent, rights, patient>>

\* The right answer deletes it, too, and logs in.
AcceptOtp(s) ==
    LET p == otpReq[s].phone
    IN  /\ otpReq[s] # Idle /\ otpReq[s].at = "accept"
        /\ otp' = [otp EXCEPT ![p] = NoCode]
        /\ rights' = [rights EXCEPT ![p][otpReq[s].read.code] = @ + 1]
        /\ otpReq' = Ends(otpReq, s)
        /\ UNCHANGED <<cooldown, sent, wrongs, patient>>

\* A request fails before its next access.
OtpFails(s) ==
    /\ otpReq[s] # Idle
    /\ otpReq' = Ends(otpReq, s)
    /\ UNCHANGED <<otp, cooldown, sent, history, patient>>

OtpExpires(p) ==
    /\ otp[p] # NoCode
    /\ otp' = [otp EXCEPT ![p] = NoCode]
    /\ UNCHANGED <<cooldown, sent, history, otpReq, patient>>

CooldownExpires(p) ==
    /\ cooldown[p]
    /\ cooldown' = [cooldown EXCEPT ![p] = FALSE]
    /\ UNCHANGED <<otp, sent, history, otpReq, patient>>

-----------------------------------------------------------------------------
(* The specification *)

OtpInit ==
    /\ otp = [p \in Phones |-> NoCode]
    /\ cooldown = [p \in Phones |-> FALSE]
    /\ sent = [p \in Phones |-> 0]
    /\ rights = [p \in Phones |-> [c \in Codes |-> 0]]
    /\ wrongs = [p \in Phones |-> [c \in Codes |-> 0]]
    /\ otpReq = [s \in Sessions |-> Idle]
    /\ patient \in SUBSET Phones

OtpNext ==
    \/ \E s \in Sessions :
         \/ \E p \in Phones : SendOtp(s, p)
         \/ StoreOtp(s) \/ StoreCooldown(s)
         \/ \E p \in Phones, answer \in 0..MaxCodes : VerifyOtp(s, p, answer)
         \/ CountAttempt(s) \/ BlockOtp(s) \/ AcceptOtp(s)
         \/ OtpFails(s)
    \/ \E p \in Phones : OtpExpires(p) \/ CooldownExpires(p)

OtpSpec == OtpInit /\ [][OtpNext]_otpVars

-----------------------------------------------------------------------------
(* Properties *)

\* Every variable has values of its kind.
OtpTypeOK ==
    /\ otp \in [Phones -> [code : 0..MaxCodes, attempts : 0..(MaxAttempts - 1)]]
    /\ cooldown \in [Phones -> BOOLEAN]
    /\ sent \in [Phones -> 0..MaxCodes]
    /\ rights \in [Phones -> [Codes -> Nat]]
    /\ wrongs \in [Phones -> [Codes -> Nat]]
    /\ otpReq \in [Sessions ->
         [phone : Phones, at : {"store", "cooldown", "count", "block", "accept"},
          read : [code : 0..MaxCodes, attempts : 0..(MaxAttempts - 1)]] \cup {Idle}]
    /\ patient \in SUBSET Phones

\* As long as a phone waits for each answer, a code logs in at most once, and
\* at most MaxAttempts wrong answers are given to it, none after the last
\* (otp.py:59-122), even if requests fail halfway and keys expire.
CodeIsSpent ==
    \A p \in patient, c \in Codes :
        /\ rights[p][c] + (IF wrongs[p][c] = MaxAttempts THEN 1 ELSE 0) <= 1
        /\ wrongs[p][c] <= MaxAttempts

=============================================================================
