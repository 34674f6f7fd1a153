----------------------------- MODULE Addresses -----------------------------
(***************************************************************************)
(* The addresses of a customer, one of which is the default               *)
(* (AddressService).  The default is moved in two statements: an UPDATE    *)
(* that takes it from whichever rows have it, and the write of the row     *)
(* that gets it, both committed together.                                  *)
(***************************************************************************)
EXTENDS Requests

CONSTANTS
    Addrs           \* the customer's addresses

VARIABLES
    address,        \* the rows: "none", "plain" or "default" (is_default)
    addrReq,        \* requests in flight
    unhurried       \* the customer waits for each answer

addrVars == <<address, addrReq, unhurried>>

Defaults == {a \in Addrs : address[a] = "default"}

\* A request is about a row that is inserted, written or deleted.  It finds
\* the default rows first and then clears those that still are.
AddrRequest ==
    [at : {"clear", "insert", "write", "delete"},
     then : {"insert", "write"}, addr : Addrs,
     set : {"plain", "default", "same"},
     finds : SUBSET Addrs, cleared : SUBSET Addrs]

AddrAt(s, step) == addrReq[s] # Idle /\ addrReq[s].at = step

Request(s, a, at, then, set, finds) ==
    /\ addrReq[s] = Idle
    /\ unhurried => \A t \in Sessions : addrReq[t] = Idle
    /\ addrReq' = [addrReq EXCEPT ![s] =
         [at |-> at, then |-> then, addr |-> a, set |-> set,
          finds |-> finds, cleared |-> {}]]
    /\ UNCHANGED <<address, unhurried>>

-----------------------------------------------------------------------------
(* The handlers *)

CreateAddress(s, a, default) ==
    /\ address[a] = "none" /\ AloneOn(addrReq, "addr", a)
    /\ IF default THEN Request(s, a, "clear", "insert", "default", Defaults)
                  ELSE Request(s, a, "insert", "insert", "plain", {})

\* The form may leave is_default out; false where it is false writes nothing.
UpdateAddress(s, a, set) ==
    /\ address[a] # "none"
    /\ IF set = "default" THEN Request(s, a, "clear", "write", set, Defaults)
       ELSE Request(s, a, "write", "write",
                    IF set = address[a] THEN "same" ELSE set, {})

SetDefault(s, a) == UpdateAddress(s, a, "default")

DeleteAddress(s, a) ==
    /\ address[a] # "none"
    /\ Request(s, a, "delete", "write", "same", {})

\* The UPDATE waits for the rows that it has found, and then clears those that
\* are still default; a row that has become the default meanwhile it does not
\* see.
ClearDefault(s) ==
    LET w == addrReq[s]
    IN  /\ AddrAt(s, "clear")
        /\ \A t \in Sessions \ {s} :
             addrReq[t] # Idle => addrReq[t].cleared \cap w.finds = {}
        /\ addrReq' = [addrReq EXCEPT ![s].at = w.then, ![s].finds = {},
                                      ![s].cleared = w.finds \cap Defaults]
        /\ UNCHANGED <<address, unhurried>>

Cleared(w) == [a \in Addrs |-> IF a \in w.cleared THEN "plain" ELSE address[a]]

\* A cleared row stays locked, so no other request writes or deletes it.
LockedBy(s, a) == addrReq[s] # Idle /\ a \in addrReq[s].cleared
Writable(s) == \A t \in Sessions \ {s} : ~LockedBy(t, addrReq[s].addr)

\* Mutant: the session does not notice that the row which is to be the default
\* has been cleared, and writes nothing.
CommitAddress_Unnoticed(s) ==
    LET w == addrReq[s]
        a == w.addr
    IN  /\ addrReq[s] # Idle /\ w.at # "clear" /\ Writable(s)
        /\ \/ w.at = "insert" /\ address' = [Cleared(w) EXCEPT ![a] = w.set]
           \/ w.at = "write" /\ address[a] # "none"
              /\ address' = [Cleared(w) EXCEPT ![a] = IF w.set = "same" \/ a \in w.cleared
                                                      THEN @ ELSE w.set]
           \/ w.at = "delete" /\ address' = [address EXCEPT ![a] = "none"]
        /\ addrReq' = Ends(addrReq, s)
        /\ UNCHANGED unhurried

CommitAddress(s) ==
    LET w == addrReq[s]
        a == w.addr
    IN  /\ addrReq[s] # Idle /\ w.at # "clear" /\ Writable(s)
        /\ \/ w.at = "insert" /\ address' = [Cleared(w) EXCEPT ![a] = w.set]
           \/ w.at = "write" /\ address[a] # "none"
              /\ address' = [Cleared(w) EXCEPT ![a] = IF w.set = "same" THEN @ ELSE w.set]
           \/ w.at = "delete" /\ address' = [address EXCEPT ![a] = "none"]
        /\ addrReq' = Ends(addrReq, s)
        /\ UNCHANGED unhurried

\* A handler fails; so does the write of a row that is gone.
AddrFails(s) ==
    /\ addrReq[s] # Idle
    /\ addrReq' = Ends(addrReq, s)
    /\ UNCHANGED <<address, unhurried>>

\* The lists show the default first.
ListAddresses == {a \in Addrs : address[a] # "none"}

-----------------------------------------------------------------------------
(* The specification *)

AddrInit ==
    /\ address = [a \in Addrs |-> "none"]
    /\ addrReq = [s \in Sessions |-> Idle]
    /\ unhurried \in BOOLEAN

AddrNext ==
    \E s \in Sessions :
       \/ \E a \in Addrs :
            \/ \E default \in BOOLEAN : CreateAddress(s, a, default)
            \/ \E set \in {"plain", "default", "same"} : UpdateAddress(s, a, set)
            \/ SetDefault(s, a) \/ DeleteAddress(s, a)
       \/ ClearDefault(s) \/ CommitAddress(s) \/ AddrFails(s)

AddrSpec == AddrInit /\ [][AddrNext]_addrVars

-----------------------------------------------------------------------------
(* Properties *)

\* Every variable has values of its kind.
AddrTypeOK ==
    /\ address \in [Addrs -> {"none", "plain", "default"}]
    /\ addrReq \in [Sessions -> AddrRequest \cup {Idle}]
    /\ unhurried \in BOOLEAN

\* A customer who waits for each answer and makes an address the default, be
\* it the default already, has that default and no other
\* (address_service.py:62-67); no other request makes one.
DefaultMoves ==
    [][unhurried =>
         \A s \in Sessions :
           LET w == addrReq[s]
           IN  addrReq[s] # Idle /\ address' # address =>
                 IF w.set = "default" THEN Defaults' = {w.addr}
                 ELSE Defaults' \in {Defaults, Defaults \ {w.addr}}]_addrVars

=============================================================================
