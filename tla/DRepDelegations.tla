--------------------------- MODULE DRepDelegations ---------------------------
(***************************************************************************)
(* Delegations of voting power, as the columns accounts, dreps and         *)
(* dreps_delegations keep them.  The store never traverses the accounts    *)
(* when a DRep unregisters: an account's delegation is read together with  *)
(* the certificate at which its DRep last unregistered.  In protocol       *)
(* version 9 unregistering a DRep must also undo the later delegations of  *)
(* its past delegators, which the third column remembers for that purpose. *)
(*                                                                         *)
(* One Save is one block: at most one certificate of each kind, in either  *)
(* order.  The caller validates certificates: accounts delegate to DReps   *)
(* that are registered, and only these unregister.                         *)
(***************************************************************************)
EXTENDS Integers, FiniteSets

CONSTANTS
    Accounts,
    Dreps,        \* DReps, by their hash: a number of two bytes
    Base,         \* values of a byte
    MaxClock      \* bound: the last certificate

Abstain == -1        \* a pre-defined DRep
Undelegated == -2
Unregistered == -3   \* no row in acct:
Never == 0

\* A hash is not all saturated bytes (the pre-condition of into_next_prefix).
ASSUME DrepsAssumption ==
    Base \in Nat \ {0} /\ Dreps \subseteq 0 .. Base * Base - 2
ASSUME ClockAssumption == MaxClock \in Nat

Targets == Dreps \cup {Abstain}
Pointers == 1..MaxClock
NoRow == [known |-> FALSE, registeredAt |-> Never, unregisteredAt |-> Never]

VARIABLES
    accounts,   \* acct: the drep of the row, and since when
    dreps,      \* drep: NoRow, or the row with previous_deregistration
    links,      \* dlg:  pairs <<drep, delegator>>
    version,    \* protocol version
    clock,      \* the last certificate pointer
    ledger,     \* history: what the rules of the ledger say (see below)
    gone        \* history: the accounts that have been removed at some time

vars == <<accounts, dreps, links, version, clock, ledger, gone>>

Delegates == Targets \cup {Undelegated, Unregistered}
NoAccount == [drep |-> Unregistered, since |-> Never]

Ledgers ==
    [of  : [Accounts -> Delegates],
     set : [Dreps -> SUBSET Accounts],
     undone : SUBSET Accounts,
     again : SUBSET Accounts]

TypeOK ==
    /\ accounts \in [Accounts -> [drep : Delegates, since : Pointers \cup {Never}]]
    /\ dreps \in [Dreps -> [known : BOOLEAN,
                            registeredAt : Pointers \cup {Never},
                            unregisteredAt : Pointers \cup {Never}]]
    /\ links \subseteq Dreps \X Accounts
    /\ version \in {9, 10}
    /\ clock \in Pointers \cup {Never}
    /\ ledger \in Ledgers
    /\ gone \subseteq Accounts

Init ==
    /\ accounts = [a \in Accounts |-> NoAccount]
    /\ dreps = [d \in Dreps |-> NoRow]
    /\ links = {}
    /\ version = 9
    /\ clock = 0
    /\ ledger = [of |-> [a \in Accounts |-> Unregistered],
                 set |-> [d \in Dreps |-> {}],
                 undone |-> {}, again |-> {}]
    /\ gone = {}

-----------------------------------------------------------------------------
\* A block: what it registers, delegates and removes, and where each
\* certificate stands in it.
None == [at |-> Never]
Absent(certificate) == certificate.at = Never
Present(certificate) == certificate.at # Never

Registered(d) ==
    dreps[d].known /\ dreps[d].registeredAt > dreps[d].unregisteredAt

\* dreps::add, for a registration: a new row, or the old one that keeps its
\* previous_deregistration.
AddDrep(reg) ==
    IF Absent(reg) THEN dreps
    ELSE [dreps EXCEPT ![reg.drep] =
            [@ EXCEPT !.known = TRUE, !.registeredAt = reg.at]]

\* accounts::add: the row after it.
AddAccount(dlg) ==
    IF Absent(dlg) THEN accounts
    ELSE [accounts EXCEPT ![dlg.account] =
            [drep |-> dlg.drep, since |-> IF dlg.drep = Undelegated THEN Never ELSE dlg.at]]

\* The delegation it returns, if the account had one.
Previous(dlg) == IF Absent(dlg) THEN NoAccount ELSE accounts[dlg.account]

\* dreps_delegations::remove, which accounts::add calls in version 9 when the
\* new DRep is pre-defined.
ForgetLink(dlg) ==
    IF Present(dlg) /\ dlg.drep = Abstain
    THEN links \ {<<Previous(dlg).drep, dlg.account>>}
    ELSE links

KeepLinkAlways(dlg, ds) ==
    IF Previous(dlg).drep \in Dreps /\ dlg.drep # Abstain
    THEN ForgetLink(dlg) \cup {<<Previous(dlg).drep, dlg.account>>}
    ELSE ForgetLink(dlg)

KeepLinkOfAnyDrep(dlg, ds) ==
    IF Previous(dlg).drep \in Targets /\ dlg.drep # Abstain
    THEN ForgetLink(dlg) \cup {<<Previous(dlg).drep, dlg.account>>}
    ELSE ForgetLink(dlg)

\* dreps_delegations::add, for what accounts::add returned: unless the DRep
\* has unregistered since.
KeepLink(dlg, ds) ==
    LET previous == Previous(dlg) IN
    IF /\ previous.drep \in Dreps
       /\ dlg.drep # Abstain
       /\ ds[previous.drep].known
       /\ ~(ds[previous.drep].unregisteredAt > previous.since)
    THEN ForgetLink(dlg) \cup {<<previous.drep, dlg.account>>}
    ELSE ForgetLink(dlg)

AddLinks(dlg, ds) == IF version <= 9 THEN KeepLink(dlg, ds) ELSE links

\* into_next_prefix: a saturated last byte is left as it is, and the one before
\* it, which then is not saturated, is incremented.
NextPrefixNoCarry(hash) == IF hash % Base # Base - 1 THEN hash + 1 ELSE hash
NextPrefix(hash) == IF hash % Base # Base - 1 THEN hash + 1 ELSE hash + Base

\* The comment of into_next_prefix calls its result the smallest byte string
\* after the prefix, which after a saturated byte it is not: DReps are taken to
\* be far enough apart for none to lie below the bound of another.
ASSUME HashesAreApart ==
    \A d, e \in Dreps : d < e => NextPrefix(d) <= e

\* dreps_delegations::drop, through iter_drep: the links between the prefix
\* and the next.
LinksFrom(ls, d) == {l \in ls : d <= l[1] /\ l[1] < NextPrefix(d)}

\* accounts::reset_delegation, for the delegators drop returned.
ResetDelegationAll(as, delegators, at) ==
    [a \in Accounts |->
        IF a \in delegators /\ as[a] # NoAccount
        THEN [drep |-> Undelegated, since |-> Never]
        ELSE as[a]]

ResetDelegation(as, delegators, at) ==
    [a \in Accounts |->
        IF /\ a \in delegators
           /\ as[a] # NoAccount
           /\ ~(as[a].drep # Undelegated /\ as[a].since > at)
        THEN [drep |-> Undelegated, since |-> Never]
        ELSE as[a]]

\* dreps::remove: undoes the delegations (version 9), records the pointer.
RemoveDrep(unreg, as, ls, ds) ==
    IF Absent(unreg)
    THEN accounts' = as /\ links' = ls /\ dreps' = ds
    ELSE LET own == LinksFrom(ls, unreg.drep)
             reset == ResetDelegation(as, {l[2] : l \in own}, unreg.at)
         IN  /\ dreps' = [ds EXCEPT ![unreg.drep].unregisteredAt = unreg.at]
             /\ IF version <= 9
                THEN accounts' = reset /\ links' = ls \ own
                ELSE accounts' = as /\ links' = ls

\* save: all additions, then the removals of accounts, then those of DReps.
SaveColumns(reg, dlg, removed, unreg) ==
    LET ds == AddDrep(reg)
        ls == AddLinks(dlg, ds)
        as == [a \in Accounts |-> IF a \in removed THEN NoAccount
                                  ELSE AddAccount(dlg)[a]]
    IN  RemoveDrep(unreg, as, ls, ds)

-----------------------------------------------------------------------------
\* What the rules of the ledger say, certificate by certificate, in the order
\* of their pointers.  ledger.of is the delegation of each account; ledger.set
\* the accounts that count as delegators of each registered DRep: in version 9
\* (the bug the comments of accounts.rs and dreps_delegations.rs describe) an
\* account that moves to another registered DRep stays in the set of the old
\* one, and unregistering a DRep clears the delegation of its whole set.
\* ledger.undone are the accounts this has made lose a later delegation, and
\* ledger.again those that have delegated again since.
Leave(l, a) ==
    [l EXCEPT !.set = [d \in Dreps |-> IF d = l.of[a] THEN @[d] \ {a} ELSE @[d]]]

Delegate(l, dlg) ==
    LET left == IF version <= 9 /\ dlg.drep \in Dreps THEN l
                ELSE Leave(l, dlg.account)
        moved == [left EXCEPT !.of[dlg.account] = dlg.drep,
                              !.again = @ \cup ({dlg.account} \cap l.undone)]
    IN  IF dlg.drep \in Dreps
        THEN [moved EXCEPT !.set[dlg.drep] = @ \cup {dlg.account}]
        ELSE moved

Unregister(l, d) ==
    [of  |-> [a \in Accounts |-> IF a \in l.set[d] THEN Undelegated ELSE l.of[a]],
     set |-> [l.set EXCEPT ![d] = {}],
     undone |-> l.undone \cup {a \in l.set[d] : l.of[a] # d},
     again |-> l.again]

Remove(l, removed) ==
    [l EXCEPT
        !.of = [a \in Accounts |-> IF a \in removed THEN Unregistered ELSE @[a]],
        !.set = [d \in Dreps |-> {a \in @[d] : a \notin removed \/ l.of[a] # d}]]

\* The certificates of a block; accounts are removed by its last one.
Rules(dlg, removed, unreg) ==
    LET d(l) == IF Absent(dlg) THEN l ELSE Delegate(l, dlg)
        u(l) == IF Absent(unreg) THEN l ELSE Unregister(l, unreg.drep)
    IN  Remove(IF dlg.at < unreg.at THEN u(d(ledger)) ELSE d(u(ledger)), removed)

-----------------------------------------------------------------------------
Registrations == {None} \cup [drep : Dreps, at : {clock + 1}]
Delegations ==
    {None} \cup [account : Accounts, drep : Targets \cup {Undelegated}, at : clock + 2..clock + 3]
Unregistrations == {None} \cup [drep : Dreps, at : clock + 2..clock + 3]

Registers(reg, d) == Present(reg) /\ reg.drep = d

\* The blocks the ledger's rules allow.
Valid(reg, dlg, removed, unreg) ==
    /\ Present(reg) => ~Registered(reg.drep)
    /\ Present(unreg) => Registered(unreg.drep) \/ Registers(reg, unreg.drep)
    /\ Present(dlg) => dlg.account \notin removed
    /\ Present(dlg) /\ Present(unreg) => dlg.at # unreg.at
    /\ Present(dlg) /\ dlg.drep \in Dreps =>
           /\ Registered(dlg.drep) \/ Registers(reg, dlg.drep)
           /\ Present(unreg) /\ unreg.drep = dlg.drep => dlg.at < unreg.at
    /\ Present(dlg) /\ dlg.drep = Undelegated => accounts[dlg.account] = NoAccount
    /\ \A a \in removed : accounts[a] # NoAccount

Save(reg, dlg, removed, unreg) ==
    /\ clock + 3 <= MaxClock
    /\ Valid(reg, dlg, removed, unreg)
    /\ SaveColumns(reg, dlg, removed, unreg)
    /\ ledger' = Rules(dlg, removed, unreg)
    /\ gone' = gone \cup removed
    /\ clock' = clock + 3
    /\ UNCHANGED version

\* The protocol leaves version 9: the sets of past delegators are forgotten.
HardFork ==
    /\ version = 9
    /\ version' = 10
    /\ ledger' = [ledger EXCEPT !.set =
                    [d \in Dreps |-> {a \in Accounts : ledger.of[a] = d}]]
    /\ UNCHANGED <<accounts, dreps, links, clock, gone>>

Next ==
    \/ \E reg \in Registrations, dlg \in Delegations, unreg \in Unregistrations,
          removed \in {{}} \cup {{a} : a \in Accounts} :
              Save(reg, dlg, removed, unreg)
    \/ HardFork

Spec == Init /\ [][Next]_vars

-----------------------------------------------------------------------------
\* How a reader of the store understands an account: its delegation counts if
\* the DRep has not unregistered since.
Delegation(a) ==
    LET row == accounts[a] IN
    IF row.drep \in Dreps /\ dreps[row.drep].unregisteredAt > row.since
    THEN Undelegated
    ELSE row.drep

\* The comments do not say what becomes of the past delegations of an account
\* that is itself removed and registered again: the properties are about the
\* accounts that have not been.

\* The delegation the three columns stand for is the one the rules give, the
\* v9 behaviour included, for every order of delegating, moving away,
\* unregistering and registering again, within blocks and across, until an
\* account that has lost a later delegation delegates once more.
DelegationFollowsTheRules ==
    \A a \in Accounts \ (gone \cup ledger.again) : Delegation(a) = ledger.of[a]

\* In version 9 nothing is left over: the column of past delegations only holds
\* accounts the rules still count as delegators of the DRep, so that one which
\* registers again starts with none.
LinksAreDelegators ==
    version = 9 => \A l \in links : l[2] \in gone \cup ledger.set[l[1]]

\* "we need to clear any delegation relation that *ever* existed between this
\* DRep and its delegators", and the column "remembers exactly this
\* information" (dreps.rs): unregistering a DRep undelegates every account that
\* was delegated to it during its lifetime.
EveryPastDelegatorIsReset ==
    \A a \in Accounts \ gone : Delegation(a) = ledger.of[a]
=============================================================================
