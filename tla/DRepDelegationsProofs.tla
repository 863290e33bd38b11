------------------------ MODULE DRepDelegationsProofs ------------------------
(***************************************************************************)
(* Proofs about the delegations of voting power: what the three columns    *)
(* stand for is what the rules of the ledger give, account by account,     *)
(* until an account that lost a later delegation delegates once more; and  *)
(* the column of past delegations holds nothing the rules have forgotten.  *)
(***************************************************************************)
EXTENDS DRepDelegations, TLAPS

Times == Pointers \cup {Never}
AccountRows == [drep : Delegates, since : Times]
DrepRows == [known : BOOLEAN, registeredAt : Times, unregisteredAt : Times]

\* The pre-defined values are no DReps, nor each other.
LEMMA SpecialValues ==
    /\ Abstain \notin Dreps /\ Undelegated \notin Dreps /\ Unregistered \notin Dreps
    /\ Abstain # Undelegated /\ Abstain # Unregistered /\ Undelegated # Unregistered
    /\ NoAccount.drep = Unregistered /\ NoAccount.since = Never
BY DrepsAssumption DEF Abstain, Undelegated, Unregistered, NoAccount

\* A prefix scan finds the links of the DRep and of no other.
LEMMA OwnLinks ==
    ASSUME NEW ls \in SUBSET (Dreps \X Accounts), NEW d \in Dreps
    PROVE  /\ LinksFrom(ls, d) \subseteq ls
           /\ \A e \in Dreps, a \in Accounts :
                 <<e, a>> \in LinksFrom(ls, d) <=> <<e, a>> \in ls /\ e = d
<1>. SUFFICES ASSUME NEW e \in Dreps, NEW a \in Accounts, <<e, a>> \in ls
              PROVE  d <= e /\ e < NextPrefix(d) <=> e = d
  BY DEF LinksFrom
<1>1. d \in Nat /\ e \in Nat /\ Base \in Nat \ {0}
  BY DrepsAssumption
<1>2. NextPrefix(d) \in Nat /\ d < NextPrefix(d)
  BY <1>1 DEF NextPrefix
<1>3. d < e => NextPrefix(d) <= e
  BY HashesAreApart
<1>. QED  BY <1>1, <1>2, <1>3

-----------------------------------------------------------------------------
(* The certificates of a block.                                            *)

IsDelegation(dlg) ==
    /\ dlg.account \in Accounts
    /\ dlg.drep \in Targets \cup {Undelegated}
    /\ dlg.at \in Pointers /\ dlg.at > clock /\ dlg.at <= clock + 3

IsUnregistration(unreg) ==
    /\ unreg.drep \in Dreps
    /\ unreg.at \in Pointers /\ unreg.at > clock /\ unreg.at <= clock + 3

IsRegistration(reg) ==
    /\ reg.drep \in Dreps
    /\ reg.at \in Pointers /\ reg.at > clock /\ reg.at <= clock + 3

LEMMA Certificates ==
    ASSUME TypeOK, clock + 3 <= MaxClock,
           NEW reg \in Registrations, NEW dlg \in Delegations, NEW unreg \in Unregistrations
    PROVE  /\ Present(reg) => IsRegistration(reg)
           /\ Present(dlg) => IsDelegation(dlg)
           /\ Present(unreg) => IsUnregistration(unreg)
           /\ dlg.at \in Times /\ unreg.at \in Times
<1>. USE DEF Present, None, Never, Pointers, Times
<1>1. clock \in Nat /\ MaxClock \in Nat
  BY ClockAssumption DEF TypeOK
<1>2. reg = None \/ reg \in [drep : Dreps, at : {clock + 1}]
  BY DEF Registrations
<1>3. Present(reg) => IsRegistration(reg)
  BY <1>1, <1>2 DEF IsRegistration
<1>4. \/ dlg = None
      \/ dlg \in [account : Accounts, drep : Targets \cup {Undelegated},
                  at : clock + 2..clock + 3]
  BY DEF Delegations
<1>5. (Present(dlg) => IsDelegation(dlg)) /\ dlg.at \in Times
  BY <1>1, <1>4 DEF IsDelegation
<1>6. unreg = None \/ unreg \in [drep : Dreps, at : clock + 2..clock + 3]
  BY DEF Unregistrations
<1>7. (Present(unreg) => IsUnregistration(unreg)) /\ unreg.at \in Times
  BY <1>1, <1>6 DEF IsUnregistration
<1>. QED  BY <1>3, <1>5, <1>7

-----------------------------------------------------------------------------
(* The rules, for one account.                                             *)

\* The DReps that count the account among their delegators.
Sets(l, a) == {d \in Dreps : a \in l.set[d]}

AfterDelegation(l, dlg) == IF Absent(dlg) THEN l ELSE Delegate(l, dlg)
AfterUnregistration(l, unreg) == IF Absent(unreg) THEN l ELSE Unregister(l, unreg.drep)

LEMMA RulesAre ==
    ASSUME NEW dlg, NEW removed, NEW unreg
    PROVE  Rules(dlg, removed, unreg) =
              Remove(IF dlg.at < unreg.at
                     THEN AfterUnregistration(AfterDelegation(ledger, dlg), unreg)
                     ELSE AfterDelegation(AfterUnregistration(ledger, unreg), dlg), removed)
BY DEF Rules, AfterDelegation, AfterUnregistration

LEMMA LeaveEffect ==
    ASSUME NEW l \in Ledgers, NEW b \in Accounts
    PROVE  /\ Leave(l, b) \in Ledgers
           /\ Leave(l, b).of = l.of /\ Leave(l, b).undone = l.undone
           /\ Leave(l, b).again = l.again
           /\ Sets(Leave(l, b), b) = Sets(l, b) \ {l.of[b]}
           /\ \A a \in Accounts : a # b => Sets(Leave(l, b), a) = Sets(l, a)
<1>. DEFINE set == [d \in Dreps |-> IF d = l.of[b] THEN l.set[d] \ {b} ELSE l.set[d]]
<1>1. Leave(l, b) = [l EXCEPT !.set = set]
  BY DEF Leave
<1>2. set \in [Dreps -> SUBSET Accounts]
  BY DEF Ledgers
<1>3. Leave(l, b).set = set
  BY <1>1 DEF Ledgers
<1>. HIDE DEF set
<1>4. Leave(l, b) \in Ledgers
  BY <1>1, <1>2 DEF Ledgers
<1>5. /\ Leave(l, b).of = l.of /\ Leave(l, b).undone = l.undone
      /\ Leave(l, b).again = l.again
  BY <1>1 DEF Ledgers
<1>6. /\ Sets(Leave(l, b), b) = Sets(l, b) \ {l.of[b]}
      /\ \A a \in Accounts : a # b => Sets(Leave(l, b), a) = Sets(l, a)
  BY <1>3 DEF Sets, set
<1>. QED  BY <1>4, <1>5, <1>6

LEMMA DelegateEffect ==
    ASSUME NEW l \in Ledgers, NEW dlg, Present(dlg) => IsDelegation(dlg), NEW a \in Accounts
    PROVE  LET r == AfterDelegation(l, dlg)
               mine == Present(dlg) /\ dlg.account = a
           IN  /\ r \in Ledgers
               /\ r.of[a] = IF mine THEN dlg.drep ELSE l.of[a]
               /\ Sets(r, a) =
                     IF ~mine THEN Sets(l, a)
                     ELSE IF dlg.drep \notin Dreps THEN Sets(l, a) \ {l.of[a]}
                     ELSE IF version <= 9 THEN Sets(l, a) \cup {dlg.drep}
                     ELSE (Sets(l, a) \ {l.of[a]}) \cup {dlg.drep}
               /\ a \in r.again <=> a \in l.again \/ (mine /\ a \in l.undone)
               /\ r.undone = l.undone
<1>. DEFINE r == AfterDelegation(l, dlg)
            mine == Present(dlg) /\ dlg.account = a
<1>1. CASE ~Present(dlg)
  BY <1>1 DEF AfterDelegation, Absent, Present
<1>2. CASE Present(dlg)
  <2>. DEFINE b == dlg.account
              left == IF version <= 9 /\ dlg.drep \in Dreps THEN l ELSE Leave(l, b)
              moved == [left EXCEPT !.of[b] = dlg.drep,
                                    !.again = @ \cup ({b} \cap l.undone)]
  <2>1. b \in Accounts /\ dlg.drep \in Delegates
    BY <1>2 DEF IsDelegation, Delegates
  <2>2. /\ left \in Ledgers /\ left.of = l.of /\ left.undone = l.undone /\ left.again = l.again
        /\ Sets(left, b) = IF version <= 9 /\ dlg.drep \in Dreps THEN Sets(l, b)
                           ELSE Sets(l, b) \ {l.of[b]}
        /\ a # b => Sets(left, a) = Sets(l, a)
    BY <2>1, LeaveEffect
  <2>3. r = IF dlg.drep \in Dreps
            THEN [moved EXCEPT !.set[dlg.drep] = @ \cup {b}] ELSE moved
    BY <1>2 DEF AfterDelegation, Absent, Present, Delegate
  <2>. HIDE DEF left, b
  <2>4. /\ moved.of = [l.of EXCEPT ![b] = dlg.drep]
        /\ moved.again = l.again \cup ({b} \cap l.undone)
        /\ moved.undone = l.undone
        /\ moved.set = left.set
    BY <2>2 DEF Ledgers
  <2>5. moved \in Ledgers
    BY <2>1, <2>2 DEF Ledgers
  <2>. HIDE DEF moved
  <2>6. CASE dlg.drep \in Dreps
    <3>1. /\ r \in Ledgers /\ r.of = moved.of /\ r.again = moved.again
          /\ r.undone = moved.undone
          /\ r.set = [moved.set EXCEPT ![dlg.drep] = @ \cup {b}]
      BY <2>1, <2>3, <2>5, <2>6 DEF Ledgers
    <3>2. Sets(r, a) = IF a = b THEN Sets(left, a) \cup {dlg.drep} ELSE Sets(left, a)
      BY <2>2, <2>4, <2>6, <3>1 DEF Sets, Ledgers
    <3>3. r.of[a] = IF a = b THEN dlg.drep ELSE l.of[a]
      BY <2>1, <2>4, <3>1 DEF Ledgers
    <3>. QED  BY <1>2, <2>2, <2>4, <2>6, <3>1, <3>2, <3>3 DEF b
  <2>7. CASE dlg.drep \notin Dreps
    <3>1. r = moved
      BY <2>3, <2>7
    <3>2. Sets(r, a) = Sets(left, a)
      BY <2>4, <3>1 DEF Sets
    <3>3. r.of[a] = IF a = b THEN dlg.drep ELSE l.of[a]
      BY <2>1, <2>4, <3>1 DEF Ledgers
    <3>. QED  BY <1>2, <2>2, <2>4, <2>5, <2>7, <3>1, <3>2, <3>3 DEF b
  <2>. QED  BY <2>6, <2>7
<1>. QED  BY <1>1, <1>2

LEMMA UnregisterType ==
    ASSUME NEW l \in Ledgers, NEW unreg, Present(unreg) => IsUnregistration(unreg)
    PROVE  AfterUnregistration(l, unreg) \in Ledgers
<1>1. CASE ~Present(unreg)
  BY <1>1 DEF AfterUnregistration, Absent, Present
<1>2. CASE Present(unreg)
  <2>. DEFINE d == unreg.drep
              of == [b \in Accounts |-> IF b \in l.set[d] THEN Undelegated ELSE l.of[b]]
              set == [l.set EXCEPT ![d] = {}]
              undone == l.undone \cup {b \in l.set[d] : l.of[b] # d}
  <2>1. /\ AfterUnregistration(l, unreg) =
              [of |-> of, set |-> set, undone |-> undone, again |-> l.again]
        /\ d \in Dreps
    BY <1>2 DEF AfterUnregistration, Unregister, Absent, Present, IsUnregistration
  <2>2. of \in [Accounts -> Delegates]
    BY DEF Ledgers, Delegates
  <2>3. set \in [Dreps -> SUBSET Accounts] /\ undone \in SUBSET Accounts
    BY <2>1 DEF Ledgers
  <2>. HIDE DEF of, set, undone
  <2>. QED  BY <2>1, <2>2, <2>3 DEF Ledgers
<1>. QED  BY <1>1, <1>2

LEMMA UnregisterEffect ==
    ASSUME NEW l \in Ledgers, NEW unreg, Present(unreg) => IsUnregistration(unreg),
           NEW a \in Accounts
    PROVE  LET r == AfterUnregistration(l, unreg)
               cleared == Present(unreg) /\ unreg.drep \in Sets(l, a)
           IN  /\ r.of[a] = IF cleared THEN Undelegated ELSE l.of[a]
               /\ Sets(r, a) = IF Present(unreg) THEN Sets(l, a) \ {unreg.drep} ELSE Sets(l, a)
               /\ a \in r.undone <=> a \in l.undone \/ (cleared /\ l.of[a] # unreg.drep)
               /\ r.again = l.again
<1>. DEFINE r == AfterUnregistration(l, unreg)
<1>1. CASE ~Present(unreg)
  BY <1>1 DEF AfterUnregistration, Absent, Present
<1>2. CASE Present(unreg)
  <2>. DEFINE d == unreg.drep
  <2>1. /\ r.of = [b \in Accounts |-> IF b \in l.set[d] THEN Undelegated ELSE l.of[b]]
        /\ r.set = [l.set EXCEPT ![d] = {}]
        /\ r.undone = l.undone \cup {b \in l.set[d] : l.of[b] # d}
        /\ r.again = l.again /\ d \in Dreps
    BY <1>2 DEF AfterUnregistration, Unregister, Absent, Present, IsUnregistration
  <2>2. a \in l.set[d] <=> d \in Sets(l, a)
    BY <2>1 DEF Sets
  <2>3. Sets(r, a) = Sets(l, a) \ {d}
    BY <2>1 DEF Sets, Ledgers
  <2>. QED  BY <1>2, <2>1, <2>2, <2>3
<1>. QED  BY <1>1, <1>2

LEMMA RemoveIs ==
    ASSUME NEW l \in Ledgers, NEW removed \in SUBSET Accounts
    PROVE  LET r == Remove(l, removed)
           IN  /\ r \in Ledgers
               /\ r.of = [b \in Accounts |-> IF b \in removed THEN Unregistered ELSE l.of[b]]
               /\ r.set = [d \in Dreps |-> {b \in l.set[d] : b \notin removed \/ l.of[b] # d}]
               /\ r.undone = l.undone /\ r.again = l.again
<1>. DEFINE r == Remove(l, removed)
            of == [b \in Accounts |-> IF b \in removed THEN Unregistered ELSE l.of[b]]
            set == [d \in Dreps |-> {b \in l.set[d] : b \notin removed \/ l.of[b] # d}]
<1>1. r = [l EXCEPT !.of = of, !.set = set]
  BY DEF Remove
<1>2. of \in [Accounts -> Delegates]
  BY DEF Ledgers, Delegates
<1>3. set \in [Dreps -> SUBSET Accounts]
  BY DEF Ledgers
<1>4. r \in Ledgers /\ r.of = of /\ r.set = set /\ r.undone = l.undone /\ r.again = l.again
  <2>. HIDE DEF of, set
  <2>. QED  BY <1>1, <1>2, <1>3 DEF Ledgers
<1>. QED  BY <1>4

LEMMA RemoveEffect ==
    ASSUME NEW l \in Ledgers, NEW removed \in SUBSET Accounts, NEW a \in Accounts
    PROVE  LET r == Remove(l, removed)
           IN  /\ r.of[a] = IF a \in removed THEN Unregistered ELSE l.of[a]
               /\ Sets(r, a) = IF a \in removed THEN Sets(l, a) \ {l.of[a]} ELSE Sets(l, a)
               /\ r.undone = l.undone /\ r.again = l.again
<1>. DEFINE r == Remove(l, removed)
<1>1. /\ r.of = [b \in Accounts |-> IF b \in removed THEN Unregistered ELSE l.of[b]]
      /\ r.set = [d \in Dreps |-> {b \in l.set[d] : b \notin removed \/ l.of[b] # d}]
      /\ r.undone = l.undone /\ r.again = l.again
  BY RemoveIs
<1>. HIDE DEF r
<1>2. r.of[a] = IF a \in removed THEN Unregistered ELSE l.of[a]
  BY <1>1
<1>3. \A d \in Dreps : a \in r.set[d] <=> a \in l.set[d] /\ (a \notin removed \/ l.of[a] # d)
  BY <1>1
<1>4. Sets(r, a) = IF a \in removed THEN Sets(l, a) \ {l.of[a]} ELSE Sets(l, a)
  BY <1>3 DEF Sets
<1>. QED  BY <1>1, <1>2, <1>4 DEF r

LEMMA DelegateType ==
    ASSUME NEW l \in Ledgers, NEW dlg, Present(dlg) => IsDelegation(dlg)
    PROVE  AfterDelegation(l, dlg) \in Ledgers
<1>1. CASE ~Present(dlg)
  BY <1>1 DEF AfterDelegation, Absent, Present
<1>2. CASE Present(dlg)
  BY <1>2, DelegateEffect DEF IsDelegation
<1>. QED  BY <1>1, <1>2

LEMMA RulesType ==
    ASSUME ledger \in Ledgers, NEW removed \in SUBSET Accounts,
           NEW dlg, Present(dlg) => IsDelegation(dlg),
           NEW unreg, Present(unreg) => IsUnregistration(unreg)
    PROVE  Rules(dlg, removed, unreg) \in Ledgers
<1>. DEFINE l == IF dlg.at < unreg.at
                 THEN AfterUnregistration(AfterDelegation(ledger, dlg), unreg)
                 ELSE AfterDelegation(AfterUnregistration(ledger, unreg), dlg)
<1>1. l \in Ledgers
  BY DelegateType, UnregisterType
<1>. HIDE DEF l
<1>2. Rules(dlg, removed, unreg) = Remove(l, removed)
  BY RulesAre DEF l
<1>. QED  BY <1>1, <1>2, RemoveIs

-----------------------------------------------------------------------------
(* The inductive invariant.                                                *)

\* The DReps the column of past delegations links the account to.
LinkedIn(ls, a) == {d \in Dreps : <<d, a>> \in ls}
Linked(a) == LinkedIn(links, a)

\* Every row is from a certificate the store has seen.
ClockInv ==
    /\ \A a \in Accounts : accounts[a].since <= clock
    /\ \A d \in Dreps : dreps[d].registeredAt <= clock /\ dreps[d].unregisteredAt <= clock

\* A row that names a DRep names one with a row.
RowInv ==
    \A a \in Accounts :
        /\ accounts[a].drep \in Dreps => dreps[accounts[a].drep].known
        /\ accounts[a].drep = Unregistered => accounts[a] = NoAccount

\* Version 9, for one account: the column of past delegations and the current
\* one account for every DRep that counts the account among its delegators,
\* until a later delegation has been undone.
Past(a) == Sets(ledger, a)

Nine(a) ==
    LET row == accounts[a]
        of  == ledger.of[a]
    IN  /\ row = NoAccount => Past(a) = {}
        /\ row.drep \in Dreps =>
              (row.drep \in Past(a) <=> ~(dreps[row.drep].unregisteredAt > row.since))
        /\ Linked(a) \subseteq Past(a)
        /\ of = Delegation(a) \/ (of = Undelegated /\ a \in ledger.again)
        /\ a \notin ledger.again =>
              IF a \in ledger.undone THEN of = Undelegated
              ELSE Past(a) \subseteq Linked(a) \cup {of}

VersionNine == version = 9 => \A a \in Accounts \ gone : Nine(a)

\* From version 10 on, the DReps count the accounts that delegate to them.
VersionTen ==
    version = 10 =>
        /\ \A a \in Accounts : Past(a) = Dreps \cap {ledger.of[a]}
        /\ \A a \in Accounts \ (gone \cup ledger.again) : ledger.of[a] = Delegation(a)

Inv == TypeOK /\ ClockInv /\ RowInv /\ VersionNine /\ VersionTen

-----------------------------------------------------------------------------
(* The columns, for one account.                                           *)

RowAfter(dlg, a) ==
    IF Present(dlg) /\ dlg.account = a
    THEN [drep |-> dlg.drep, since |-> IF dlg.drep = Undelegated THEN Never ELSE dlg.at]
    ELSE accounts[a]

\* A delegation is remembered when the account leaves it, if it still counts.
LinkedAfter(dlg, a) ==
    LET row == accounts[a] IN
    IF ~(Present(dlg) /\ dlg.account = a) THEN Linked(a)
    ELSE IF dlg.drep = Abstain THEN Linked(a) \ {row.drep}
    ELSE IF /\ row.drep \in Dreps
            /\ ~(dreps[row.drep].unregisteredAt > row.since)
         THEN Linked(a) \cup {row.drep}
         ELSE Linked(a)

LEMMA AddDrepEffect ==
    ASSUME TypeOK, NEW reg, Present(reg) => IsRegistration(reg)
    PROVE  /\ AddDrep(reg) \in [Dreps -> DrepRows]
           /\ \A d \in Dreps :
                 /\ AddDrep(reg)[d].unregisteredAt = dreps[d].unregisteredAt
                 /\ dreps[d].known => AddDrep(reg)[d].known
                 /\ AddDrep(reg)[d].known =>
                       dreps[d].known \/ (Present(reg) /\ reg.drep = d)
                 /\ AddDrep(reg)[d].registeredAt =
                       IF Present(reg) /\ reg.drep = d THEN reg.at ELSE dreps[d].registeredAt
                 /\ Present(reg) /\ reg.drep = d => AddDrep(reg)[d].known
<1>. USE DEF DrepRows, Times
<1>0. dreps \in [Dreps -> DrepRows]
  BY DEF TypeOK
<1>1. CASE ~Present(reg)
  <2>1. AddDrep(reg) = dreps
    BY <1>1 DEF AddDrep, Absent, Present
  <2>. QED  BY <1>0, <1>1, <2>1
<1>2. CASE Present(reg)
  <2>. DEFINE row == [dreps[reg.drep] EXCEPT !.known = TRUE, !.registeredAt = reg.at]
  <2>1. AddDrep(reg) = [dreps EXCEPT ![reg.drep] = row] /\ reg.drep \in Dreps
        /\ reg.at \in Times
    BY <1>2 DEF AddDrep, Absent, Present, IsRegistration
  <2>2. /\ row \in DrepRows /\ row.known = TRUE /\ row.registeredAt = reg.at
        /\ row.unregisteredAt = dreps[reg.drep].unregisteredAt
    <3>. DEFINE d == dreps[reg.drep]
    <3>1. d \in DrepRows /\ reg.at \in Times
      BY <1>0, <2>1
    <3>. HIDE DEF d
    <3>2. LET r == [d EXCEPT !.known = TRUE, !.registeredAt = reg.at]
          IN  /\ r \in DrepRows /\ r.known = TRUE /\ r.registeredAt = reg.at
              /\ r.unregisteredAt = d.unregisteredAt
      BY <3>1
    <3>. QED  BY <3>2, Zenon DEF d
  <2>. HIDE DEF row
  <2>. QED  BY <1>0, <1>2, <2>1, <2>2
<1>. QED  BY <1>1, <1>2

LEMMA AddAccountEffect ==
    ASSUME TypeOK, NEW dlg, Present(dlg) => IsDelegation(dlg)
    PROVE  /\ AddAccount(dlg) \in [Accounts -> AccountRows]
           /\ \A a \in Accounts : AddAccount(dlg)[a] = RowAfter(dlg, a)
<1>0. accounts \in [Accounts -> AccountRows]
  BY DEF TypeOK, AccountRows, Times
<1>1. CASE ~Present(dlg)
  BY <1>0, <1>1 DEF AddAccount, Absent, Present, RowAfter
<1>2. CASE Present(dlg)
  <2>. DEFINE row == [drep |-> dlg.drep,
                      since |-> IF dlg.drep = Undelegated THEN Never ELSE dlg.at]
  <2>1. AddAccount(dlg) = [accounts EXCEPT ![dlg.account] = row]
    BY <1>2 DEF AddAccount, Absent, Present
  <2>2. row \in AccountRows /\ dlg.account \in Accounts
    BY <1>2 DEF AccountRows, Times, IsDelegation, Delegates
  <2>3. \A a \in Accounts : RowAfter(dlg, a) = IF a = dlg.account THEN row ELSE accounts[a]
    BY <1>2 DEF RowAfter
  <2>. HIDE DEF row
  <2>. QED  BY <1>0, <2>1, <2>2, <2>3
<1>. QED  BY <1>1, <1>2

LEMMA AddLinksEffect ==
    ASSUME TypeOK, RowInv, NEW reg, Present(reg) => IsRegistration(reg),
           NEW dlg, Present(dlg) => IsDelegation(dlg)
    PROVE  LET ls == AddLinks(dlg, AddDrep(reg))
           IN  /\ ls \in SUBSET (Dreps \X Accounts)
               /\ version = 9 => \A a \in Accounts : LinkedIn(ls, a) = LinkedAfter(dlg, a)
               /\ version = 10 => ls = links
<1>. DEFINE ds == AddDrep(reg)
            ls == AddLinks(dlg, ds)
<1>1. links \in SUBSET (Dreps \X Accounts) /\ version \in {9, 10}
  BY DEF TypeOK
<1>2. CASE version = 10
  BY <1>1, <1>2 DEF AddLinks
<1>3. CASE ~Present(dlg)
  <2>1. ls = links
    BY <1>3, SpecialValues DEF AddLinks, KeepLink, ForgetLink, Previous, Absent, Present
  <2>2. \A a \in Accounts : LinkedAfter(dlg, a) = Linked(a)
    BY <1>3 DEF LinkedAfter
  <2>. QED  BY <1>1, <2>1, <2>2 DEF Linked
<1>4. CASE Present(dlg) /\ version = 9
  <2>. DEFINE b == dlg.account
              row == accounts[b]
              counts == /\ row.drep \in Dreps
                        /\ ~(dreps[row.drep].unregisteredAt > row.since)
  <2>1. b \in Accounts /\ Previous(dlg) = row
    BY <1>4 DEF IsDelegation, Previous, Absent, Present
  <2>2. row.drep \in Dreps =>
          /\ ds[row.drep].known
          /\ ds[row.drep].unregisteredAt = dreps[row.drep].unregisteredAt
    BY <2>1, AddDrepEffect DEF RowInv
  <2>3. ls = IF dlg.drep = Abstain THEN links \ {<<row.drep, b>>}
             ELSE IF counts THEN links \cup {<<row.drep, b>>} ELSE links
    BY <1>4, <2>1, <2>2 DEF AddLinks, KeepLink, ForgetLink
  <2>4. \A a \in Accounts :
          LinkedAfter(dlg, a) = IF a # b THEN Linked(a)
                                ELSE IF dlg.drep = Abstain THEN Linked(b) \ {row.drep}
                                ELSE IF counts THEN Linked(b) \cup {row.drep}
                                ELSE Linked(b)
    BY <1>4 DEF LinkedAfter
  <2>5. counts => row.drep \in Dreps
    OBVIOUS
  <2>. HIDE DEF counts, row, b, ls
  <2>6. ls \in SUBSET (Dreps \X Accounts)
    BY <1>1, <2>1, <2>3, <2>5
  <2>7. \A a \in Accounts, d \in Dreps :
          <<d, a>> \in ls <=>
             IF a # b THEN <<d, a>> \in links
             ELSE IF dlg.drep = Abstain THEN <<d, a>> \in links /\ d # row.drep
             ELSE <<d, a>> \in links \/ (counts /\ d = row.drep)
    BY <2>3
  <2>8. \A a \in Accounts : LinkedIn(ls, a) = LinkedAfter(dlg, a)
    BY <2>4, <2>5, <2>7 DEF Linked, LinkedIn
  <2>. QED  BY <1>4, <2>6, <2>8 DEF ls
<1>. QED  BY <1>1, <1>2, <1>3, <1>4

\* Unregistering a DRep undoes the delegation of an account linked to it.
Undoes(dlg, unreg, a) ==
    /\ version = 9
    /\ Present(unreg) /\ unreg.drep \in LinkedAfter(dlg, a)
    /\ RowAfter(dlg, a) # NoAccount
    /\ ~(RowAfter(dlg, a).drep # Undelegated /\ RowAfter(dlg, a).since > unreg.at)

LEMMA ColumnsEffect ==
    ASSUME TypeOK, RowInv, clock + 3 <= MaxClock,
           NEW reg \in Registrations, NEW dlg \in Delegations, NEW unreg \in Unregistrations,
           NEW removed \in SUBSET Accounts,
           SaveColumns(reg, dlg, removed, unreg)
    PROVE  /\ accounts' \in [Accounts -> AccountRows]
           /\ dreps' \in [Dreps -> DrepRows]
           /\ links' \in SUBSET (Dreps \X Accounts)
           /\ \A d \in Dreps :
                 /\ dreps'[d].known = AddDrep(reg)[d].known
                 /\ dreps'[d].registeredAt = AddDrep(reg)[d].registeredAt
                 /\ dreps'[d].unregisteredAt = IF Present(unreg) /\ unreg.drep = d
                                               THEN unreg.at ELSE dreps[d].unregisteredAt
           /\ \A a \in Accounts :
                 accounts'[a] = IF a \in removed THEN NoAccount
                                ELSE IF Undoes(dlg, unreg, a)
                                THEN [drep |-> Undelegated, since |-> Never]
                                ELSE RowAfter(dlg, a)
           /\ version = 9 =>
                 \A a \in Accounts :
                    Linked(a)' = IF Present(unreg) THEN LinkedAfter(dlg, a) \ {unreg.drep}
                                        ELSE LinkedAfter(dlg, a)
           /\ version = 10 => links' = links
<1>. DEFINE ds == AddDrep(reg)
            ls == AddLinks(dlg, ds)
            as == [a \in Accounts |-> IF a \in removed THEN NoAccount ELSE AddAccount(dlg)[a]]
            own == LinksFrom(ls, unreg.drep)
            Row(a) == IF a \in removed THEN NoAccount ELSE RowAfter(dlg, a)
<1>0. /\ Present(reg) => IsRegistration(reg)
      /\ Present(dlg) => IsDelegation(dlg)
      /\ Present(unreg) => IsUnregistration(unreg)
      /\ version \in {9, 10}
  BY Certificates DEF TypeOK
<1>1. /\ ds \in [Dreps -> DrepRows]
      /\ \A d \in Dreps : ds[d].unregisteredAt = dreps[d].unregisteredAt
  BY <1>0, AddDrepEffect
<1>2. /\ ls \in SUBSET (Dreps \X Accounts)
      /\ version = 9 => \A a \in Accounts : LinkedIn(ls, a) = LinkedAfter(dlg, a)
      /\ version = 10 => ls = links
  BY <1>0, AddLinksEffect
<1>3. /\ \A a \in Accounts : AddAccount(dlg)[a] \in AccountRows
      /\ \A a \in Accounts : as[a] = Row(a)
  BY <1>0, AddAccountEffect
<1>4. NoAccount \in AccountRows /\ [drep |-> Undelegated, since |-> Never] \in AccountRows
  BY DEF NoAccount, AccountRows, Delegates, Times
<1>5. as \in [Accounts -> AccountRows]
  BY <1>3, <1>4
<1>6. RemoveDrep(unreg, as, ls, ds)
  BY DEF SaveColumns
<1>. HIDE DEF ds, ls, as
<1>7. CASE ~Present(unreg)
  <2>1. accounts' = as /\ links' = ls /\ dreps' = ds
    BY <1>6, <1>7 DEF RemoveDrep, Absent, Present
  <2>2. \A a \in Accounts : ~Undoes(dlg, unreg, a)
    BY <1>7 DEF Undoes
  <2>3. /\ accounts' \in [Accounts -> AccountRows]
        /\ dreps' \in [Dreps -> DrepRows]
        /\ links' \in SUBSET (Dreps \X Accounts)
    BY <2>1, <1>1, <1>2, <1>5
  <2>4. \A d \in Dreps : /\ dreps'[d].known = ds[d].known
                         /\ dreps'[d].registeredAt = ds[d].registeredAt
                         /\ dreps'[d].unregisteredAt = dreps[d].unregisteredAt
    BY <2>1, <1>1
  <2>. QED  BY <1>2, <1>3, <1>7, <2>1, <2>2, <2>3, <2>4 DEF ds, Linked
<1>8. CASE Present(unreg)
  <2>. DEFINE u == unreg.drep
              delegators == {l[2] : l \in own}
              reset == ResetDelegation(as, delegators, unreg.at)
  <2>0. u \in Dreps /\ unreg.at \in Times
    BY <1>0, <1>8 DEF IsUnregistration, Times
  <2>1. /\ dreps' = [ds EXCEPT ![u].unregisteredAt = unreg.at]
        /\ version = 9 => accounts' = reset /\ links' = ls \ own
        /\ version = 10 => accounts' = as /\ links' = ls
    <3>1. /\ dreps' = [ds EXCEPT ![u].unregisteredAt = unreg.at]
          /\ IF version <= 9 THEN accounts' = reset /\ links' = ls \ own
             ELSE accounts' = as /\ links' = ls
      BY <1>6, <1>8, Zenon DEF RemoveDrep, Absent, Present
    <3>2. (version = 9 => version <= 9) /\ (version = 10 => ~(version <= 9))
      OBVIOUS
    <3>. QED  BY <3>1, <3>2, Zenon
  <2>2. \A d \in Dreps : /\ dreps'[d].known = ds[d].known
                         /\ dreps'[d].registeredAt = ds[d].registeredAt
                         /\ dreps'[d].unregisteredAt = IF u = d THEN unreg.at
                                                       ELSE dreps[d].unregisteredAt
    BY <2>0, <2>1, <1>1 DEF DrepRows
  <2>3. dreps' \in [Dreps -> DrepRows]
    BY <2>0, <2>1, <1>1 DEF DrepRows
  <2>4. /\ own \subseteq ls
        /\ \A d \in Dreps, a \in Accounts : <<d, a>> \in own <=> <<d, a>> \in ls /\ d = u
    BY <1>2, <2>0, OwnLinks
  <2>5. links' \in SUBSET (Dreps \X Accounts)
    BY <1>0, <1>2, <2>1
  <2>. HIDE DEF own
  <2>6. \A a \in Accounts : a \in delegators <=> u \in LinkedIn(ls, a)
    <3>1. SUFFICES ASSUME NEW a \in Accounts
                   PROVE  a \in delegators <=> <<u, a>> \in ls
      BY <2>0 DEF Linked, LinkedIn
    <3>2. \A l \in own : l \in Dreps \X Accounts
      BY <1>2, <2>4
    <3>3. ASSUME NEW l \in own, l[2] = a
          PROVE  <<u, a>> \in ls
      <4>1. l = <<l[1], l[2]>> /\ l[1] \in Dreps
        BY <3>2, <3>3
      <4>. QED  BY <4>1, <3>3, <2>4
    <3>4. ASSUME <<u, a>> \in ls
          PROVE  \E l \in own : l[2] = a
      <4>1. <<u, a>> \in own
        BY <3>4, <2>0, <2>4
      <4>. QED  BY <4>1
    <3>. QED  BY <3>3, <3>4
  <2>. HIDE DEF delegators, u
  <2>7. CASE version = 10
    <3>1. \A a \in Accounts : ~Undoes(dlg, unreg, a)
      BY <2>7 DEF Undoes
    <3>2. accounts' = as /\ links' = ls /\ ls = links
      BY <1>2, <2>1, <2>7
    <3>3. \A a \in Accounts :
            accounts'[a] = IF a \in removed THEN NoAccount
                           ELSE IF Undoes(dlg, unreg, a)
                           THEN [drep |-> Undelegated, since |-> Never]
                           ELSE RowAfter(dlg, a)
      BY <1>3, <3>1, <3>2
    <3>. HIDE DEF reset
    <3>4. accounts' \in [Accounts -> AccountRows]
      BY <1>5, <3>2, Zenon
    <3>5. version # 9
      BY <2>7
    <3>. QED  BY <1>8, <2>2, <2>3, <2>5, <3>2, <3>3, <3>4, <3>5, Zenon DEF ds, u
  <2>8. CASE version = 9
    <3>1. \A a \in Accounts :
            Linked(a)' = LinkedAfter(dlg, a) \ {u}
      <4>1. \A a \in Accounts, d \in Dreps : <<d, a>> \in links' <=> <<d, a>> \in ls /\ d # u
        BY <2>1, <2>4, <2>8
      <4>. QED  BY <4>1, <1>2, <2>8 DEF Linked, LinkedIn
    <3>2. \A a \in Accounts :
            accounts'[a] = IF /\ a \in delegators
                              /\ as[a] # NoAccount
                              /\ ~(as[a].drep # Undelegated /\ as[a].since > unreg.at)
                           THEN [drep |-> Undelegated, since |-> Never]
                           ELSE as[a]
      BY <2>1, <2>8 DEF ResetDelegation
    <3>3. ASSUME NEW a \in Accounts
          PROVE  accounts'[a] = IF a \in removed THEN NoAccount
                                ELSE IF Undoes(dlg, unreg, a)
                                THEN [drep |-> Undelegated, since |-> Never]
                                ELSE RowAfter(dlg, a)
      <4>1. CASE a \in removed
        BY <4>1, <1>3, <3>2
      <4>2. CASE a \notin removed
        <5>1. as[a] = RowAfter(dlg, a)
          BY <4>2, <1>3
        <5>2. a \in delegators <=> u \in LinkedAfter(dlg, a)
          BY <2>6, <1>2, <2>8
        <5>. QED  BY <4>2, <5>1, <5>2, <3>2, <2>8, <1>8 DEF Undoes, u
      <4>. QED  BY <4>1, <4>2
    <3>4. accounts' \in [Accounts -> AccountRows]
      <4>1. accounts' = [a \in Accounts |->
                           IF /\ a \in delegators
                              /\ as[a] # NoAccount
                              /\ ~(as[a].drep # Undelegated /\ as[a].since > unreg.at)
                           THEN [drep |-> Undelegated, since |-> Never]
                           ELSE as[a]]
        BY <2>1, <2>8 DEF ResetDelegation
      <4>. QED  BY <4>1, <1>4, <1>5
    <3>. QED  BY <1>8, <2>2, <2>3, <2>5, <2>8, <3>1, <3>3, <3>4 DEF ds, u
  <2>. QED  BY <1>0, <2>7, <2>8
<1>. QED  BY <1>7, <1>8

-----------------------------------------------------------------------------
(* A block, for an account that it does not remove.                        *)

\* The certificates of a valid block.
Block(reg, dlg, removed, unreg) ==
    /\ reg \in Registrations /\ dlg \in Delegations /\ unreg \in Unregistrations
    /\ removed \in SUBSET Accounts
    /\ clock + 3 <= MaxClock
    /\ Valid(reg, dlg, removed, unreg)

\* The rules for the account, by the order of its delegation and the
\* unregistration.
RulesFor(dlg, unreg, a) ==
    LET mine == Present(dlg) /\ dlg.account = a
        u    == unreg.drep
        e    == dlg.drep
        of   == ledger.of[a]
        hit  == Present(unreg) /\ u \in Past(a)
        left == IF Present(unreg) THEN Past(a) \ {u} ELSE Past(a)
        Joined(past, was) == IF e \notin Dreps THEN past \ {was}
                             ELSE IF version <= 9 THEN past \cup {e}
                             ELSE (past \ {was}) \cup {e}
        joined == Joined(Past(a), of)
    IN  /\ ~mine =>
              /\ Past(a)' = left
              /\ ledger'.of[a] = IF hit THEN Undelegated ELSE of
              /\ a \in ledger'.undone <=> a \in ledger.undone \/ (hit /\ of # u)
              /\ a \in ledger'.again <=> a \in ledger.again
        /\ mine /\ ~(Present(unreg) /\ dlg.at < unreg.at) =>
              /\ Past(a)' = Joined(left, IF hit THEN Undelegated ELSE of)
              /\ ledger'.of[a] = e
              /\ a \in ledger'.undone <=> a \in ledger.undone \/ (hit /\ of # u)
              /\ a \in ledger'.again <=>
                    a \in ledger.again \/ a \in ledger.undone \/ (hit /\ of # u)
        /\ mine /\ Present(unreg) /\ dlg.at < unreg.at =>
              /\ Past(a)' = joined \ {u}
              /\ ledger'.of[a] = IF u \in joined THEN Undelegated ELSE e
              /\ a \in ledger'.undone <=> a \in ledger.undone \/ (u \in joined /\ e # u)
              /\ a \in ledger'.again <=> a \in ledger.again \/ a \in ledger.undone

LEMMA RulesEffect ==
    ASSUME TypeOK, NEW a \in Accounts,
           NEW reg, NEW dlg, NEW removed, NEW unreg, Block(reg, dlg, removed, unreg),
           a \notin removed, ledger' = Rules(dlg, removed, unreg)
    PROVE  RulesFor(dlg, unreg, a)
<1>0. /\ ledger \in Ledgers /\ removed \in SUBSET Accounts
      /\ Present(dlg) => IsDelegation(dlg)
      /\ Present(unreg) => IsUnregistration(unreg)
      /\ dlg.at \in Times /\ unreg.at \in Times
  BY Certificates DEF Block, TypeOK
<1>. DEFINE d1 == AfterDelegation(ledger, dlg)
            u1 == AfterUnregistration(ledger, unreg)
            d2 == AfterDelegation(u1, dlg)
            u2 == AfterUnregistration(d1, unreg)
            l  == IF dlg.at < unreg.at THEN u2 ELSE d2
            mine == Present(dlg) /\ dlg.account = a
            u == unreg.drep
            e == dlg.drep
            hit == Present(unreg) /\ u \in Past(a)
<1>1. d1 \in Ledgers /\ u1 \in Ledgers /\ d2 \in Ledgers /\ u2 \in Ledgers
  BY <1>0, DelegateType, UnregisterType
<1>2. ledger' = Remove(l, removed) /\ l \in Ledgers
  <2>1. l \in Ledgers
    BY <1>1
  <2>2. ledger' = Remove(l, removed)
    BY RulesAre
  <2>. QED  BY <2>1, <2>2
<1>3. /\ ledger'.of[a] = l.of[a] /\ Past(a)' = Sets(l, a)
      /\ ledger'.undone = l.undone /\ ledger'.again = l.again
  <2>. HIDE DEF l
  <2>1. Past(a)' = Sets(Remove(l, removed), a)
    BY <1>2 DEF Past, Sets
  <2>. QED  BY <1>0, <1>2, <2>1, RemoveEffect
<1>4. /\ d1.of[a] = IF mine THEN e ELSE ledger.of[a]
      /\ Sets(d1, a) = IF ~mine THEN Past(a)
                       ELSE IF e \notin Dreps THEN Past(a) \ {ledger.of[a]}
                       ELSE IF version <= 9 THEN Past(a) \cup {e}
                       ELSE (Past(a) \ {ledger.of[a]}) \cup {e}
      /\ a \in d1.again <=> a \in ledger.again \/ (mine /\ a \in ledger.undone)
      /\ d1.undone = ledger.undone
  BY <1>0, DelegateEffect DEF Past
<1>5. /\ u1.of[a] = IF hit THEN Undelegated ELSE ledger.of[a]
      /\ Sets(u1, a) = IF Present(unreg) THEN Past(a) \ {u} ELSE Past(a)
      /\ a \in u1.undone <=> a \in ledger.undone \/ (hit /\ ledger.of[a] # u)
      /\ u1.again = ledger.again
  BY <1>0, UnregisterEffect DEF Past
<1>6. /\ d2.of[a] = IF mine THEN e ELSE u1.of[a]
      /\ Sets(d2, a) = IF ~mine THEN Sets(u1, a)
                       ELSE IF e \notin Dreps THEN Sets(u1, a) \ {u1.of[a]}
                       ELSE IF version <= 9 THEN Sets(u1, a) \cup {e}
                       ELSE (Sets(u1, a) \ {u1.of[a]}) \cup {e}
      /\ a \in d2.again <=> a \in u1.again \/ (mine /\ a \in u1.undone)
      /\ d2.undone = u1.undone
  BY <1>0, <1>1, DelegateEffect
<1>7. LET cleared == Present(unreg) /\ u \in Sets(d1, a)
      IN  /\ u2.of[a] = IF cleared THEN Undelegated ELSE d1.of[a]
          /\ Sets(u2, a) = IF Present(unreg) THEN Sets(d1, a) \ {u} ELSE Sets(d1, a)
          /\ a \in u2.undone <=> a \in d1.undone \/ (cleared /\ d1.of[a] # u)
          /\ u2.again = d1.again
  BY <1>0, <1>1, UnregisterEffect
<1>8. Present(unreg) \/ ~(dlg.at < unreg.at)
  BY <1>0 DEF Present, Times, Never, Pointers
<1>. HIDE DEF d1, u1, d2, u2, u, e
<1>9. CASE ~mine
  <2>1. CASE dlg.at < unreg.at
    BY <1>3, <1>4, <1>7, <1>8, <1>9, <2>1 DEF u, e, RulesFor
  <2>2. CASE ~(dlg.at < unreg.at)
    BY <1>3, <1>5, <1>6, <1>9, <2>2 DEF u, e, RulesFor
  <2>. QED  BY <2>1, <2>2
<1>10. CASE mine /\ dlg.at < unreg.at
  BY <1>3, <1>4, <1>7, <1>8, <1>10 DEF u, e, RulesFor
<1>11. CASE mine /\ ~(dlg.at < unreg.at)
  BY <1>3, <1>5, <1>6, <1>8, <1>11 DEF u, e, RulesFor
<1>. QED  BY <1>9, <1>10, <1>11

LEMMA RowStep ==
    ASSUME TypeOK, ClockInv, RowInv,
           NEW reg, NEW dlg, NEW removed, NEW unreg, Block(reg, dlg, removed, unreg),
           SaveColumns(reg, dlg, removed, unreg), clock' = clock + 3
    PROVE  ClockInv' /\ RowInv'
<1>1. /\ Present(reg) => IsRegistration(reg)
      /\ Present(dlg) => IsDelegation(dlg)
      /\ Present(unreg) => IsUnregistration(unreg)
  BY Certificates DEF Block
<1>2. clock \in Nat
  BY ClockAssumption DEF TypeOK, Pointers, Never
<1>3. \A d \in Dreps :
        /\ dreps'[d].known = AddDrep(reg)[d].known
        /\ dreps'[d].registeredAt = AddDrep(reg)[d].registeredAt
        /\ dreps'[d].unregisteredAt = IF Present(unreg) /\ unreg.drep = d
                                      THEN unreg.at ELSE dreps[d].unregisteredAt
  BY ColumnsEffect DEF Block
<1>4. \A a \in Accounts :
        accounts'[a] = IF a \in removed THEN NoAccount
                       ELSE IF Undoes(dlg, unreg, a)
                       THEN [drep |-> Undelegated, since |-> Never]
                       ELSE RowAfter(dlg, a)
  BY ColumnsEffect DEF Block
<1>5. \A d \in Dreps :
        /\ dreps[d].registeredAt \in Nat /\ dreps[d].unregisteredAt \in Nat
        /\ dreps[d].known => AddDrep(reg)[d].known
        /\ Present(reg) /\ reg.drep = d => AddDrep(reg)[d].known
        /\ AddDrep(reg)[d].registeredAt =
              IF Present(reg) /\ reg.drep = d THEN reg.at ELSE dreps[d].registeredAt
  <2>1. \A d \in Dreps : dreps[d].registeredAt \in Nat /\ dreps[d].unregisteredAt \in Nat
    BY DEF TypeOK, Pointers, Never
  <2>. QED  BY <2>1, <1>1, AddDrepEffect
<1>6. \A a \in Accounts : accounts[a].since \in Nat /\ accounts[a].since <= clock
  BY DEF TypeOK, Pointers, Never, ClockInv
<1>7. ASSUME NEW d \in Dreps
      PROVE  dreps'[d].registeredAt <= clock + 3 /\ dreps'[d].unregisteredAt <= clock + 3
  <2>1. dreps[d].registeredAt <= clock /\ dreps[d].unregisteredAt <= clock
    BY DEF ClockInv
  <2>2. dreps'[d].registeredAt <= clock + 3
    BY <1>1, <1>2, <1>3, <1>5, <2>1 DEF IsRegistration
  <2>3. dreps'[d].unregisteredAt <= clock + 3
    BY <1>1, <1>2, <1>3, <1>5, <2>1 DEF IsUnregistration
  <2>. QED  BY <2>2, <2>3
<1>8. ASSUME NEW a \in Accounts
      PROVE  /\ accounts'[a].since <= clock + 3
             /\ accounts'[a].drep \in Dreps => dreps'[accounts'[a].drep].known
             /\ accounts'[a].drep = Unregistered => accounts'[a] = NoAccount
  <2>1. CASE a \in removed
    BY <2>1, <1>2, <1>4, SpecialValues DEF Never
  <2>2. CASE a \notin removed /\ Undoes(dlg, unreg, a)
    BY <2>2, <1>2, <1>4, SpecialValues DEF Never
  <2>3. CASE a \notin removed /\ ~Undoes(dlg, unreg, a) /\ Present(dlg) /\ dlg.account = a
    <3>1. accounts'[a] = [drep |-> dlg.drep,
                          since |-> IF dlg.drep = Undelegated THEN Never ELSE dlg.at]
      BY <2>3, <1>4 DEF RowAfter
    <3>2. /\ dlg.drep \in Dreps =>
                \/ dreps[dlg.drep].known
                \/ Present(reg) /\ reg.drep = dlg.drep
          /\ dlg.drep # Unregistered
          /\ dlg.at \in Nat /\ dlg.at <= clock + 3
      BY <2>3, <1>1, SpecialValues
         DEF Block, Valid, Registered, Registers, IsDelegation, Targets, Pointers
    <3>. QED  BY <3>1, <3>2, <1>2, <1>3, <1>5 DEF Never
  <2>4. CASE a \notin removed /\ ~Undoes(dlg, unreg, a) /\ ~(Present(dlg) /\ dlg.account = a)
    <3>1. accounts'[a] = accounts[a]
      BY <2>4, <1>4 DEF RowAfter
    <3>. QED  BY <3>1, <1>2, <1>3, <1>5, <1>6 DEF RowInv
  <2>. QED  BY <2>1, <2>2, <2>3, <2>4
<1>. QED  BY <1>7, <1>8 DEF ClockInv, RowInv

LEMMA NineStep ==
    ASSUME TypeOK, ClockInv, RowInv, version = 9,
           NEW reg, NEW dlg, NEW removed, NEW unreg, Save(reg, dlg, removed, unreg),
           Block(reg, dlg, removed, unreg),
           NEW a \in Accounts, a \notin removed, Nine(a)
    PROVE  Nine(a)'
<1>. DEFINE row == accounts[a]
            of == ledger.of[a]
            P == Past(a)
            L == Linked(a)
            again == a \in ledger.again
            undone == a \in ledger.undone
            u == unreg.drep
            e == dlg.drep
            mine == Present(dlg) /\ dlg.account = a
            U == Present(unreg)
            hit == U /\ u \in P
            un(d) == dreps[d].unregisteredAt
            nextUn(d) == dreps'[d].unregisteredAt
            counts == row.drep \in Dreps /\ ~(un(row.drep) > row.since)
            row1 == RowAfter(dlg, a)
            L1 == LinkedAfter(dlg, a)
            nextP == Past(a)'
            nextL == Linked(a)'
            nextRow == accounts'[a]
            nextOf == ledger'.of[a]
            nextUndone == a \in ledger'.undone
            nextAgain == a \in ledger'.again
<1>1. /\ mine => IsDelegation(dlg)
      /\ U => IsUnregistration(unreg)
      /\ dlg.at \in Times /\ unreg.at \in Times
      /\ clock \in Nat
  BY Certificates, ClockAssumption DEF Block, TypeOK, Pointers, Never
<1>2. /\ \A d \in Dreps : nextUn(d) = IF U /\ u = d THEN unreg.at ELSE un(d)
      /\ nextRow = IF Undoes(dlg, unreg, a) THEN [drep |-> Undelegated, since |-> Never]
                   ELSE row1
      /\ nextL = IF U THEN L1 \ {u} ELSE L1
  BY ColumnsEffect DEF Save, Block
<1>3. /\ ~mine =>
            /\ nextP = IF U THEN P \ {u} ELSE P
            /\ nextOf = IF hit THEN Undelegated ELSE of
            /\ nextUndone <=> undone \/ (hit /\ of # u)
            /\ nextAgain <=> again
      /\ mine /\ ~(U /\ dlg.at < unreg.at) =>
            /\ nextP = IF e \notin Dreps
                       THEN (IF U THEN P \ {u} ELSE P) \ {IF hit THEN Undelegated ELSE of}
                       ELSE (IF U THEN P \ {u} ELSE P) \cup {e}
            /\ nextOf = e
            /\ nextUndone <=> undone \/ (hit /\ of # u)
            /\ nextAgain <=> again \/ undone \/ (hit /\ of # u)
      /\ mine /\ U /\ dlg.at < unreg.at =>
            /\ nextP = (IF e \notin Dreps THEN P \ {of} ELSE P \cup {e}) \ {u}
            /\ nextOf = IF u \in (IF e \notin Dreps THEN P \ {of} ELSE P \cup {e})
                        THEN Undelegated ELSE e
            /\ nextUndone <=>
                  \/ undone
                  \/ u \in (IF e \notin Dreps THEN P \ {of} ELSE P \cup {e}) /\ e # u
            /\ nextAgain <=> again \/ undone
  <2>1. RulesFor(dlg, unreg, a)
    BY RulesEffect DEF Save
  <2>2. version <= 9
    OBVIOUS
  <2>. QED  BY <2>1, <2>2, Zenon DEF RulesFor
<1>4. /\ row.drep \in Delegates /\ row.since \in Nat /\ row.since <= clock
      /\ \A d \in Dreps : un(d) \in Nat /\ un(d) <= clock
      /\ row.drep = Unregistered => row = NoAccount
      /\ P \subseteq Dreps
  BY DEF TypeOK, ClockInv, RowInv, Pointers, Never, Past, Sets
<1>5. /\ row = NoAccount => P = {}
      /\ row.drep \in Dreps => (row.drep \in P <=> ~(un(row.drep) > row.since))
      /\ L \subseteq P
      /\ of = Delegation(a) \/ (of = Undelegated /\ again)
      /\ ~again => IF undone THEN of = Undelegated ELSE P \subseteq L \cup {of}
  BY Zenon DEF Nine
<1>6. U => u \in Dreps /\ unreg.at \in Nat /\ unreg.at > clock
  BY <1>1 DEF IsUnregistration, Pointers
<1>7. Delegation(a) = IF row.drep \in Dreps /\ un(row.drep) > row.since
                      THEN Undelegated ELSE row.drep
  BY DEF Delegation
<1>8. Delegation(a)' = IF nextRow.drep \in Dreps /\ nextUn(nextRow.drep) > nextRow.since
                       THEN Undelegated ELSE nextRow.drep
  BY DEF Delegation
<1>9. Nine(a)' <=>
        /\ nextRow = NoAccount => nextP = {}
        /\ nextRow.drep \in Dreps =>
              (nextRow.drep \in nextP <=> ~(nextUn(nextRow.drep) > nextRow.since))
        /\ nextL \subseteq nextP
        /\ nextOf = Delegation(a)' \/ (nextOf = Undelegated /\ nextAgain)
        /\ ~nextAgain => IF nextUndone THEN nextOf = Undelegated
                         ELSE nextP \subseteq nextL \cup {nextOf}
  BY Zenon DEF Nine
<1>10. /\ row.drep \in Dreps => (counts <=> row.drep \in P)
       /\ counts => row.drep \in P
       /\ of \in Dreps => counts /\ of = row.drep
       /\ counts /\ ~again => of = row.drep
  BY <1>5, <1>7, SpecialValues
<1>11. CASE ~mine
  <2>1. row1 = row /\ L1 = L
    BY <1>11 DEF RowAfter, LinkedAfter
  <2>2. U => ~(row.since > unreg.at)
    BY <1>1, <1>4, <1>6
  <2>3. Undoes(dlg, unreg, a) <=> U /\ u \in L /\ row # NoAccount
    BY <2>1, <2>2, Zenon DEF Undoes
  <2>4. U /\ row.drep = u => nextUn(u) > row.since
    BY <1>1, <1>2, <1>4, <1>6
  <2>5. /\ nextRow = IF U /\ u \in L /\ row # NoAccount
                     THEN [drep |-> Undelegated, since |-> Never] ELSE row
        /\ nextL = IF U THEN L \ {u} ELSE L
        /\ nextP = IF U THEN P \ {u} ELSE P
        /\ nextOf = IF hit THEN Undelegated ELSE of
        /\ nextUndone <=> undone \/ (hit /\ of # u)
        /\ nextAgain <=> again
    BY <1>2, <1>3, <1>11, <2>1, <2>3, Zenon
  <2>6. \A d \in Dreps : ~(U /\ u = d) => nextUn(d) = un(d)
    BY <1>2
  <2>. HIDE DEF row, of, P, L, again, undone, u, U, un, nextUn, nextP, nextL, nextRow,
               nextOf, nextUndone, nextAgain
  <2>7. nextRow = NoAccount => nextP = {}
    BY <1>5, <2>5, SpecialValues
  <2>8. nextRow.drep \in Dreps =>
          (nextRow.drep \in nextP <=> ~(nextUn(nextRow.drep) > nextRow.since))
    BY <1>5, <2>4, <2>5, <2>6, SpecialValues
  <2>9. nextL \subseteq nextP
    BY <1>5, <2>5
  <2>10. nextOf = Delegation(a)' \/ (nextOf = Undelegated /\ nextAgain)
    BY <1>4, <1>5, <1>6, <1>7, <1>8, <2>4, <2>5, <2>6, SpecialValues
  <2>13. ~nextAgain => IF nextUndone THEN nextOf = Undelegated
                       ELSE nextP \subseteq nextL \cup {nextOf}
    BY <1>5, <2>5
  <2>. QED  BY <1>9, <2>7, <2>8, <2>9, <2>10, <2>13
<1>12. CASE mine
  <2>. DEFINE kept == IF e = Abstain THEN L \ {row.drep}
                      ELSE IF counts THEN L \cup {row.drep} ELSE L
              before == U /\ dlg.at < unreg.at
              new == [drep |-> e, since |-> IF e = Undelegated THEN Never ELSE dlg.at]
              joined == IF e \notin Dreps THEN P \ {of} ELSE P \cup {e}
  <2>1. row1 = new /\ L1 = kept
    BY <1>12 DEF RowAfter, LinkedAfter
  <2>2. /\ e \in Targets \cup {Undelegated} /\ e # Unregistered
        /\ dlg.at \in Nat /\ dlg.at > clock
        /\ e = Undelegated => row = NoAccount
        /\ U /\ e \in Dreps /\ u = e => dlg.at < unreg.at
        /\ U => dlg.at # unreg.at
    BY <1>1, <1>12, SpecialValues DEF Block, Valid, IsDelegation, Targets, Pointers
  <2>3. \A d \in Dreps : ~(U /\ u = d) => nextUn(d) = un(d)
    BY <1>2
  <2>4. U => nextUn(u) = unreg.at
    BY <1>2, <1>6
  <2>5. e = Undelegated => kept = {} /\ P = {}
    BY <1>5, <2>2, SpecialValues
  <2>6. Undoes(dlg, unreg, a) <=> before /\ u \in kept
    <3>1. new # NoAccount /\ new.drep = e /\ (e # Undelegated => new.since = dlg.at)
      BY <2>2, SpecialValues
    <3>2. U => unreg.at \in Nat /\ (dlg.at > unreg.at <=> ~(dlg.at < unreg.at))
      BY <1>6, <2>2
    <3>. HIDE DEF kept, new, row1, L1
    <3>. QED  BY <2>1, <2>5, <3>1, <3>2 DEF Undoes, row1, L1
  <2>7. /\ nextRow = IF before /\ u \in kept
                     THEN [drep |-> Undelegated, since |-> Never] ELSE new
        /\ nextL = IF U THEN kept \ {u} ELSE kept
    BY <1>2, <2>1, <2>6, Zenon
  <2>8. /\ new # NoAccount /\ new.drep = e
        /\ e \in Dreps => e # Undelegated /\ e # Abstain /\ new.since = dlg.at
        /\ e \notin Dreps => e = Abstain \/ e = Undelegated
    BY <2>2, SpecialValues DEF Targets
  <2>9. /\ e \in Dreps => kept = IF counts THEN L \cup {row.drep} ELSE L
        /\ e = Abstain => kept = L \ {row.drep}
    BY <2>8
  <2>10. /\ e \in Dreps /\ ~(U /\ u = e) => nextUn(e) \in Nat /\ ~(nextUn(e) > dlg.at)
         /\ U /\ u = e => u \in Dreps /\ before /\ nextUn(e) > dlg.at
    BY <1>1, <1>4, <1>6, <2>2, <2>3, <2>4
  <2>11. kept \subseteq joined
    <3>. HIDE DEF row, of, P, L, again, undone, u, e, counts, kept
    <3>1. CASE e \in Dreps
      BY <1>10, <1>5, <2>9, <3>1
    <3>2. CASE e = Abstain
      <4>1. e \notin Dreps
        BY <3>2, SpecialValues
      <4>2. \A d \in L \ {row.drep} : d # of
        BY <1>4, <1>5, <1>10
      <4>. QED  BY <1>5, <2>9, <3>2, <4>1, <4>2
    <3>3. CASE e = Undelegated
      BY <2>5, <3>3
    <3>. QED  BY <2>8, <3>1, <3>2, <3>3
  <2>12. ~again /\ ~undone => joined \subseteq kept \cup {e}
    <3>. HIDE DEF row, of, P, L, again, undone, u, e, counts, kept
    <3>1. SUFFICES ASSUME ~again, ~undone
                   PROVE  joined \subseteq kept \cup {e}
      OBVIOUS
    <3>2. P \subseteq Dreps /\ P \subseteq L \cup {of}
      BY <1>4, <1>5, <3>1
    <3>3. CASE e \in Dreps
      BY <1>10, <2>9, <3>2, <3>3
    <3>4. CASE e = Abstain
      <4>1. e \notin Dreps
        BY <3>4, SpecialValues
      <4>2. \A d \in P \ {of} : d \in L /\ d # row.drep
        BY <1>10, <3>1, <3>2
      <4>. QED  BY <2>9, <3>4, <4>1, <4>2
    <3>5. CASE e = Undelegated
      BY <2>5, <3>5, SpecialValues
    <3>. QED  BY <2>8, <3>3, <3>4, <3>5
  <2>13. CASE ~before
    <3>1. /\ nextRow = new
          /\ nextP = IF e \notin Dreps
                     THEN (IF U THEN P \ {u} ELSE P) \ {IF hit THEN Undelegated ELSE of}
                     ELSE (IF U THEN P \ {u} ELSE P) \cup {e}
          /\ nextOf = e
          /\ nextUndone <=> undone \/ (hit /\ of # u)
          /\ nextAgain <=> again \/ undone \/ (hit /\ of # u)
      BY <1>3, <1>12, <2>7, <2>13, Zenon
    <3>. HIDE DEF row, of, P, L, again, undone, u, e, U, un, nextUn, nextP, nextL, nextRow,
                 nextOf, nextUndone, nextAgain, new, kept, counts, before
    <3>2. nextRow # NoAccount
      BY <2>8, <3>1
    <3>3. nextRow.drep \in Dreps =>
            (nextRow.drep \in nextP <=> ~(nextUn(nextRow.drep) > nextRow.since))
      BY <2>8, <2>10, <2>13, <3>1
    <3>4. nextL \subseteq nextP
      <4>1. nextL \subseteq joined /\ (U => u \notin nextL)
        BY <2>7, <2>11
      <4>2. Undelegated \notin P
        BY <1>4, SpecialValues
      <4>. QED  BY <3>1, <4>1, <4>2
    <3>5. nextOf = Delegation(a)' \/ (nextOf = Undelegated /\ nextAgain)
      BY <1>8, <2>8, <2>10, <2>13, <3>1
    <3>6. ~nextAgain => IF nextUndone THEN nextOf = Undelegated
                        ELSE nextP \subseteq nextL \cup {nextOf}
      BY <1>4, <1>5, <1>10, <2>5, <2>7, <2>8, <2>9, <3>1, SpecialValues
    <3>. QED  BY <1>9, <3>2, <3>3, <3>4, <3>5, <3>6
  <2>14. CASE before
    <3>1. /\ nextP = joined \ {u}
          /\ nextOf = IF u \in joined THEN Undelegated ELSE e
          /\ nextUndone <=> undone \/ (u \in joined /\ e # u)
          /\ nextAgain <=> again \/ undone
      BY <1>3, <1>12, <2>14, Zenon
    <3>2. U
      BY <2>14
    <3>. HIDE DEF row, of, P, L, again, undone, u, e, U, un, nextUn, nextP, nextL, nextRow,
                 nextOf, nextUndone, nextAgain, new, kept, counts, before
    <3>3. nextRow # NoAccount
      BY <2>7, <2>8, SpecialValues
    <3>5. nextRow.drep \in Dreps =>
            (nextRow.drep \in nextP <=> ~(nextUn(nextRow.drep) > nextRow.since))
      BY <2>7, <2>8, <2>10, <3>1, <3>2, SpecialValues
    <3>6. nextL \subseteq nextP
      BY <2>7, <2>11, <3>1, <3>2
    <3>7. nextOf = Delegation(a)' \/ (nextOf = Undelegated /\ nextAgain)
      <4>1. CASE u \in kept
        BY <1>8, <2>7, <2>11, <2>14, <3>1, <4>1, SpecialValues
      <4>2. CASE u \in joined /\ u \notin kept
        <5>1. nextOf = Undelegated /\ nextRow = new
          BY <2>7, <3>1, <4>2
        <5>2. CASE u = e
          BY <1>8, <2>8, <2>10, <3>2, <5>1, <5>2
        <5>3. CASE u # e
          BY <2>12, <3>1, <4>2, <5>1, <5>3
        <5>. QED  BY <5>2, <5>3
      <4>3. CASE u \notin joined
        <5>1. nextOf = e /\ nextRow = new
          BY <2>7, <2>11, <3>1, <4>3
        <5>2. e \in Dreps => u # e
          BY <4>3
        <5>. QED  BY <1>8, <2>8, <2>10, <5>1, <5>2
      <4>. QED  BY <4>1, <4>2, <4>3
    <3>8. ~nextAgain => IF nextUndone THEN nextOf = Undelegated
                        ELSE nextP \subseteq nextL \cup {nextOf}
      <4>. HIDE DEF joined
      <4>. QED  BY <2>7, <2>12, <3>1, <3>2
    <3>. QED  BY <1>9, <3>3, <3>5, <3>6, <3>7, <3>8
  <2>. QED  BY <2>13, <2>14
<1>. QED  BY <1>11, <1>12

\* In version 10 an account is in the set of its DRep, and in no other.
Counted(l) == \A a \in Accounts : Sets(l, a) = Dreps \cap {l.of[a]}

LEMMA CountedStays ==
    ASSUME TypeOK, version = 10, Counted(ledger),
           NEW removed \in SUBSET Accounts,
           NEW dlg, Present(dlg) => IsDelegation(dlg),
           NEW unreg, Present(unreg) => IsUnregistration(unreg)
    PROVE  Counted(Rules(dlg, removed, unreg))
<1>. DEFINE l == IF dlg.at < unreg.at
                 THEN AfterUnregistration(AfterDelegation(ledger, dlg), unreg)
                 ELSE AfterDelegation(AfterUnregistration(ledger, unreg), dlg)
<1>1. ASSUME NEW k \in Ledgers, Counted(k)
      PROVE  AfterDelegation(k, dlg) \in Ledgers /\ Counted(AfterDelegation(k, dlg))
  <2>1. AfterDelegation(k, dlg) \in Ledgers
    BY DelegateType
  <2>2. ASSUME NEW a \in Accounts
        PROVE  Sets(AfterDelegation(k, dlg), a) = Dreps \cap {AfterDelegation(k, dlg).of[a]}
    <3>. DEFINE r == AfterDelegation(k, dlg)
                mine == Present(dlg) /\ dlg.account = a
    <3>1. ~(version <= 9)
      OBVIOUS
    <3>2. /\ r.of[a] = IF mine THEN dlg.drep ELSE k.of[a]
          /\ Sets(r, a) = IF ~mine THEN Sets(k, a)
                          ELSE IF dlg.drep \notin Dreps THEN Sets(k, a) \ {k.of[a]}
                          ELSE (Sets(k, a) \ {k.of[a]}) \cup {dlg.drep}
      BY <3>1, DelegateEffect
    <3>3. Sets(k, a) = Dreps \cap {k.of[a]}
      BY <1>1 DEF Counted
    <3>. HIDE DEF r
    <3>4. Sets(r, a) = Dreps \cap {r.of[a]}
      BY <3>2, <3>3
    <3>. QED  BY <3>4 DEF r
  <2>. QED  BY <2>1, <2>2 DEF Counted
<1>2. ASSUME NEW k \in Ledgers, Counted(k)
      PROVE  AfterUnregistration(k, unreg) \in Ledgers /\ Counted(AfterUnregistration(k, unreg))
  <2>1. AfterUnregistration(k, unreg) \in Ledgers
    BY UnregisterType
  <2>2. ASSUME NEW a \in Accounts
        PROVE  Sets(AfterUnregistration(k, unreg), a) =
                  Dreps \cap {AfterUnregistration(k, unreg).of[a]}
    <3>. DEFINE r == AfterUnregistration(k, unreg)
                cleared == Present(unreg) /\ unreg.drep \in Sets(k, a)
    <3>1. /\ r.of[a] = IF cleared THEN Undelegated ELSE k.of[a]
          /\ Sets(r, a) = IF Present(unreg) THEN Sets(k, a) \ {unreg.drep} ELSE Sets(k, a)
      BY UnregisterEffect
    <3>2. Sets(k, a) = Dreps \cap {k.of[a]}
      BY <1>2 DEF Counted
    <3>. HIDE DEF r
    <3>3. Sets(r, a) = Dreps \cap {r.of[a]}
      BY <3>1, <3>2, SpecialValues
    <3>. QED  BY <3>3 DEF r
  <2>. QED  BY <2>1, <2>2 DEF Counted
<1>3. ledger \in Ledgers
  BY DEF TypeOK
<1>4. l \in Ledgers /\ Counted(l)
  BY <1>1, <1>2, <1>3
<1>. HIDE DEF l
<1>5. Rules(dlg, removed, unreg) = Remove(l, removed)
  BY RulesAre DEF l
<1>6. ASSUME NEW a \in Accounts
      PROVE  Sets(Remove(l, removed), a) = Dreps \cap {Remove(l, removed).of[a]}
  BY <1>4, RemoveEffect, SpecialValues DEF Counted
<1>. QED  BY <1>5, <1>6 DEF Counted

LEMMA TenStep ==
    ASSUME TypeOK, ClockInv, RowInv, version = 10,
           NEW reg, NEW dlg, NEW removed, NEW unreg, Save(reg, dlg, removed, unreg),
           Block(reg, dlg, removed, unreg), VersionTen
    PROVE  VersionTen'
<1>1. /\ Present(dlg) => IsDelegation(dlg)
      /\ Present(unreg) => IsUnregistration(unreg)
      /\ clock \in Nat
  BY Certificates, ClockAssumption DEF Block, TypeOK, Pointers, Never
<1>2. /\ \A a \in Accounts : Past(a) = Dreps \cap {ledger.of[a]}
      /\ \A a \in Accounts \ (gone \cup ledger.again) : ledger.of[a] = Delegation(a)
  BY DEF VersionTen
<1>3. \A a \in Accounts : Past(a)' = Dreps \cap {ledger'.of[a]}
  <2>1. Counted(ledger) /\ removed \in SUBSET Accounts
    BY <1>2 DEF Counted, Past, Block
  <2>2. Counted(Rules(dlg, removed, unreg))
    BY <1>1, <2>1, CountedStays
  <2>. QED  BY <2>2 DEF Counted, Past, Save, Sets
<1>4. ASSUME NEW a \in Accounts, a \notin gone', a \notin ledger'.again
      PROVE  ledger'.of[a] = Delegation(a)'
  <2>. DEFINE row == accounts[a]
              of == ledger.of[a]
              P == Past(a)
              u == unreg.drep
              e == dlg.drep
              mine == Present(dlg) /\ dlg.account = a
              U == Present(unreg)
              hit == U /\ u \in P
              joined == IF e \notin Dreps THEN P \ {of} ELSE (P \ {of}) \cup {e}
              un(d) == dreps[d].unregisteredAt
              nextUn(d) == dreps'[d].unregisteredAt
              nextRow == accounts'[a]
              nextOf == ledger'.of[a]
  <2>1. a \notin gone /\ a \notin removed
    BY <1>4 DEF Save
  <2>2. /\ ~mine => /\ nextOf = IF hit THEN Undelegated ELSE of
                    /\ a \in ledger'.again <=> a \in ledger.again
        /\ mine /\ ~(U /\ dlg.at < unreg.at) =>
              /\ nextOf = e
              /\ a \in ledger.again => a \in ledger'.again
        /\ mine /\ U /\ dlg.at < unreg.at =>
              /\ nextOf = IF u \in joined THEN Undelegated ELSE e
              /\ a \in ledger.again => a \in ledger'.again
    <3>1. RulesFor(dlg, unreg, a)
      BY <2>1, RulesEffect DEF Save
    <3>2. ~(version <= 9)
      OBVIOUS
    <3>. QED  BY <3>1, <3>2, Zenon DEF RulesFor
  <2>3. P = Dreps \cap {of} /\ of = Delegation(a)
    BY <1>2, <1>4, <2>1, <2>2
  <2>4. /\ \A d \in Dreps : nextUn(d) = IF U /\ u = d THEN unreg.at ELSE un(d)
        /\ nextRow = RowAfter(dlg, a)
    <3>1. ~Undoes(dlg, unreg, a)
      BY DEF Undoes
    <3>. QED  BY <2>1, <3>1, ColumnsEffect DEF Save, Block
  <2>5. /\ row.since \in Nat /\ row.since <= clock
        /\ \A d \in Dreps : un(d) \in Nat /\ un(d) <= clock
    BY DEF TypeOK, ClockInv, Pointers, Never
  <2>6. U => u \in Dreps /\ unreg.at \in Nat /\ unreg.at > clock
    BY <1>1 DEF IsUnregistration, Pointers
  <2>7. Delegation(a) = IF row.drep \in Dreps /\ un(row.drep) > row.since
                        THEN Undelegated ELSE row.drep
    BY DEF Delegation
  <2>8. Delegation(a)' = IF nextRow.drep \in Dreps /\ nextUn(nextRow.drep) > nextRow.since
                         THEN Undelegated ELSE nextRow.drep
    BY DEF Delegation
  <2>9. CASE ~mine
    <3>1. nextRow = row
      BY <2>4, <2>9 DEF RowAfter
    <3>2. U /\ row.drep = u => nextUn(u) > row.since
      BY <1>1, <2>4, <2>5, <2>6
    <3>3. \A d \in Dreps : ~(U /\ u = d) => nextUn(d) = un(d)
      BY <2>4
    <3>4. nextOf = IF hit THEN Undelegated ELSE of
      BY <2>2, <2>9
    <3>. HIDE DEF row, of, P, u, e, U, un, nextUn, nextRow, nextOf
    <3>5. nextOf = Delegation(a)'
      BY <2>3, <2>6, <2>7, <2>8, <3>1, <3>2, <3>3, <3>4, SpecialValues
    <3>. QED  BY <3>5 DEF nextOf
  <2>10. CASE mine
    <3>1. /\ nextRow.drep = e
          /\ e # Undelegated => nextRow.since = dlg.at
          /\ dlg.at \in Nat /\ dlg.at > clock
          /\ e \in Dreps => e # Undelegated
          /\ U /\ e \in Dreps /\ u = e => dlg.at < unreg.at
      BY <1>1, <2>4, <2>10, SpecialValues
         DEF RowAfter, Block, Valid, IsDelegation, Pointers
    <3>2. /\ e \in Dreps /\ ~(U /\ u = e) => ~(nextUn(e) > dlg.at)
          /\ U /\ u = e => nextUn(e) > dlg.at /\ dlg.at < unreg.at /\ e \in Dreps
      BY <1>1, <2>4, <2>5, <2>6, <3>1
    <3>3. nextOf = IF U /\ dlg.at < unreg.at /\ u = e THEN Undelegated ELSE e
      <4>1. u \in joined <=> e \in Dreps /\ u = e
        BY <2>3
      <4>. HIDE DEF joined
      <4>. QED  BY <2>2, <2>10, <3>2, <4>1
    <3>. HIDE DEF u, e, U, nextUn, nextRow, nextOf
    <3>4. nextOf = Delegation(a)'
      BY <2>8, <3>1, <3>2, <3>3
    <3>. QED  BY <3>4 DEF nextOf
  <2>. QED  BY <2>9, <2>10
<1>. QED  BY <1>3, <1>4 DEF VersionTen

LEMMA ForkStep ==
    ASSUME Inv, HardFork
    PROVE  Inv'
<1>1. /\ version' = 10 /\ UNCHANGED <<accounts, dreps, links, clock, gone>>
      /\ ledger' = [ledger EXCEPT !.set =
                      [d \in Dreps |-> {a \in Accounts : ledger.of[a] = d}]]
      /\ version = 9
  BY DEF HardFork
<1>2. ledger \in Ledgers
  BY DEF Inv, TypeOK
<1>3. /\ ledger' \in Ledgers
      /\ ledger'.of = ledger.of /\ ledger'.again = ledger.again
      /\ ledger'.set = [d \in Dreps |-> {a \in Accounts : ledger.of[a] = d}]
  <2>. DEFINE set == [d \in Dreps |-> {a \in Accounts : ledger.of[a] = d}]
  <2>1. set \in [Dreps -> SUBSET Accounts] /\ ledger' = [ledger EXCEPT !.set = set]
    BY <1>1
  <2>. HIDE DEF set
  <2>2. /\ ledger' \in Ledgers /\ ledger'.set = set
        /\ ledger'.of = ledger.of /\ ledger'.again = ledger.again
    BY <1>2, <2>1 DEF Ledgers
  <2>. QED  BY <2>2 DEF set
<1>4. TypeOK' /\ ClockInv' /\ RowInv'
  BY <1>1, <1>3 DEF Inv, TypeOK, ClockInv, RowInv
<1>5. VersionNine'
  BY <1>1 DEF VersionNine
<1>6. \A a \in Accounts : Past(a)' = Dreps \cap {ledger'.of[a]}
  BY <1>3 DEF Past, Sets
<1>7. ASSUME NEW a \in Accounts, a \notin gone', a \notin ledger'.again
      PROVE  ledger'.of[a] = Delegation(a)'
  <2>1. Nine(a)
    BY <1>1, <1>7 DEF Inv, VersionNine
  <2>2. ledger.of[a] = Delegation(a)
    BY <1>3, <1>7, <2>1 DEF Nine
  <2>3. Delegation(a)' = Delegation(a)
    BY <1>1 DEF Delegation
  <2>. QED  BY <1>3, <2>2, <2>3
<1>8. VersionTen'
  BY <1>6, <1>7 DEF VersionTen
<1>. QED  BY <1>4, <1>5, <1>8 DEF Inv

LEMMA SaveTypes ==
    ASSUME TypeOK, RowInv,
           NEW reg, NEW dlg, NEW removed, NEW unreg, Save(reg, dlg, removed, unreg),
           Block(reg, dlg, removed, unreg)
    PROVE  TypeOK'
<1>1. /\ accounts' \in [Accounts -> AccountRows]
      /\ dreps' \in [Dreps -> DrepRows]
      /\ links' \in SUBSET (Dreps \X Accounts)
  BY ColumnsEffect DEF Save, Block
<1>2. ledger' \in Ledgers
  <2>1. /\ Present(dlg) => IsDelegation(dlg)
        /\ Present(unreg) => IsUnregistration(unreg)
        /\ ledger \in Ledgers /\ removed \in SUBSET Accounts
    BY Certificates DEF Block, TypeOK
  <2>2. ledger' = Rules(dlg, removed, unreg)
    BY DEF Save
  <2>. QED  BY <2>1, <2>2, RulesType
<1>3. clock' \in Pointers
  BY ClockAssumption DEF Save, TypeOK, Pointers, Never
<1>4. version' \in {9, 10} /\ gone' \subseteq Accounts
  BY DEF Save, Block, TypeOK
<1>. QED  BY <1>1, <1>2, <1>3, <1>4 DEF TypeOK, AccountRows, DrepRows, Times

-----------------------------------------------------------------------------
(* The invariant is inductive.                                             *)

LEMMA InitInv == Init => Inv
<1>. SUFFICES ASSUME Init PROVE Inv
  OBVIOUS
<1>1. /\ accounts = [a \in Accounts |-> NoAccount]
      /\ dreps = [d \in Dreps |-> NoRow]
      /\ links = {} /\ version = 9 /\ clock = 0 /\ gone = {}
      /\ ledger = [of |-> [a \in Accounts |-> Unregistered],
                   set |-> [d \in Dreps |-> {}], undone |-> {}, again |-> {}]
  BY DEF Init
<1>2. TypeOK
  <2>1. ledger \in Ledgers
    BY <1>1 DEF Ledgers, Delegates
  <2>2. NoAccount \in [drep : Delegates, since : Pointers \cup {Never}]
    BY DEF NoAccount, Delegates
  <2>3. NoRow \in [known : BOOLEAN, registeredAt : Pointers \cup {Never},
                   unregisteredAt : Pointers \cup {Never}]
    BY DEF NoRow
  <2>. QED  BY <1>1, <2>1, <2>2, <2>3 DEF TypeOK, Never
<1>3. ClockInv /\ RowInv
  BY <1>1, SpecialValues DEF ClockInv, RowInv, NoRow, Never
<1>4. ASSUME NEW a \in Accounts
      PROVE  Nine(a)
  <2>1. Past(a) = {} /\ Linked(a) = {}
    BY <1>1 DEF Past, Sets, Linked, LinkedIn
  <2>2. accounts[a] = NoAccount /\ ledger.of[a] = Unregistered
    BY <1>1
  <2>3. Delegation(a) = Unregistered
    BY <2>2, SpecialValues DEF Delegation
  <2>. QED  BY <1>1, <2>1, <2>2, <2>3, SpecialValues DEF Nine
<1>5. VersionNine
  BY <1>4 DEF VersionNine
<1>6. VersionTen
  BY <1>1 DEF VersionTen
<1>. QED  BY <1>2, <1>3, <1>5, <1>6 DEF Inv

LEMMA NextInv == Inv /\ [Next]_vars => Inv'
<1>. SUFFICES ASSUME Inv, [Next]_vars PROVE Inv'
  OBVIOUS
<1>1. ASSUME NEW reg \in Registrations, NEW dlg \in Delegations,
             NEW unreg \in Unregistrations,
             NEW removed \in {{}} \cup {{a} : a \in Accounts},
             Save(reg, dlg, removed, unreg)
      PROVE  Inv'
  <2>1. Block(reg, dlg, removed, unreg)
    BY <1>1 DEF Block, Save
  <2>2. TypeOK /\ ClockInv /\ RowInv
    BY DEF Inv
  <2>3. SaveColumns(reg, dlg, removed, unreg) /\ clock' = clock + 3 /\ version' = version
    BY <1>1 DEF Save
  <2>4. TypeOK'
    BY <1>1, <2>1, <2>2, SaveTypes
  <2>5. ClockInv' /\ RowInv'
    BY <2>1, <2>2, <2>3, RowStep
  <2>6. VersionNine'
    <3>1. SUFFICES ASSUME version' = 9, NEW a \in Accounts, a \notin gone'
                   PROVE  Nine(a)'
      BY DEF VersionNine
    <3>2. version = 9 /\ a \notin gone /\ a \notin removed
      BY <1>1, <2>3, <3>1 DEF Save
    <3>3. Nine(a)
      BY <3>2 DEF Inv, VersionNine
    <3>. QED  BY <1>1, <2>1, <2>2, <3>2, <3>3, NineStep
  <2>7. VersionTen'
    <3>1. CASE version = 10
      BY <1>1, <2>1, <2>2, <3>1, TenStep DEF Inv
    <3>2. CASE version # 10
      BY <2>3, <3>2 DEF VersionTen
    <3>. QED  BY <3>1, <3>2
  <2>. QED  BY <2>4, <2>5, <2>6, <2>7 DEF Inv
<1>2. CASE HardFork
  BY <1>2, ForkStep
<1>3. CASE UNCHANGED vars
  <2>1. TypeOK' /\ ClockInv' /\ RowInv'
    BY <1>3 DEF Inv, TypeOK, ClockInv, RowInv, vars
  <2>2. \A a \in Accounts :
          Delegation(a)' = Delegation(a) /\ Past(a)' = Past(a) /\ Linked(a)' = Linked(a)
    BY <1>3 DEF Delegation, Past, Sets, Linked, LinkedIn, vars
  <2>3. VersionNine'
    BY <1>3, <2>2 DEF Inv, VersionNine, Nine, vars
  <2>4. VersionTen'
    BY <1>3, <2>2 DEF Inv, VersionTen, vars
  <2>. QED  BY <2>1, <2>3, <2>4 DEF Inv
<1>. QED  BY <1>1, <1>2, <1>3 DEF Next

LEMMA Invariant == Spec => []Inv
BY InitInv, NextInv, PTL DEF Spec

\* The columns hold rows of the right shape, and what the rules of the ledger
\* give is a delegation of every account.
THEOREM DelegationTypes == Spec => []TypeOK
<1>1. Inv => TypeOK
  BY DEF Inv
<1>. QED  BY <1>1, Invariant, PTL

\* For any number of accounts and DReps and any sequence of blocks: the
\* delegation that a reader of the store derives from the row of an account and
\* the last unregistration of its DRep (what accounts::add, dreps::remove and
\* dreps_delegations keep) is the one the rules of the ledger give, certificate
\* by certificate, through the undoing of version 9 and the change to version
\* 10, until an account that lost a later delegation delegates once more.
THEOREM FollowsTheRules == Spec => []DelegationFollowsTheRules
<1>1. Inv => DelegationFollowsTheRules
  <2>1. SUFFICES ASSUME Inv, NEW a \in Accounts, a \notin gone, a \notin ledger.again
                 PROVE  Delegation(a) = ledger.of[a]
    BY DEF DelegationFollowsTheRules
  <2>2. CASE version = 9
    BY <2>1, <2>2 DEF Inv, VersionNine, Nine
  <2>3. CASE version = 10
    BY <2>1, <2>3 DEF Inv, VersionTen
  <2>. QED  BY <2>1, <2>2, <2>3 DEF Inv, TypeOK
<1>. QED  BY <1>1, Invariant, PTL

\* dreps_delegations::add, remove and drop leave no stale link in version 9: an
\* account linked to a DRep is one the rules still count among its delegators,
\* so a DRep that registers again starts with none.
THEOREM NoStaleLinks == Spec => []LinksAreDelegators
<1>1. Inv => LinksAreDelegators
  <2>1. SUFFICES ASSUME Inv, version = 9, NEW l \in links, l[2] \notin gone
                 PROVE  l[2] \in ledger.set[l[1]]
    BY DEF LinksAreDelegators
  <2>2. l[1] \in Dreps /\ l[2] \in Accounts /\ l = <<l[1], l[2]>>
    BY <2>1 DEF Inv, TypeOK
  <2>3. Linked(l[2]) \subseteq Past(l[2])
    BY <2>1, <2>2 DEF Inv, VersionNine, Nine
  <2>4. l[1] \in Linked(l[2])
    BY <2>1, <2>2 DEF Linked, LinkedIn
  <2>. QED  BY <2>3, <2>4 DEF Past, Sets
<1>. QED  BY <1>1, Invariant, PTL
=============================================================================
