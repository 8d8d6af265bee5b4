--------------------------- MODULE BillingProofs ---------------------------
(***************************************************************************)
(* Theorems about the credit ledger, for every set of users, operations,   *)
(* calls and codes, every price and every budget.                          *)
(*                                                                         *)
(* TypeOK is not inductive: the balance stays a natural number only because*)
(* every charge is covered by a reservation (Solvent), and a reservation is*)
(* covered only because whoever registers late has none (OwnersKnown).     *)
(***************************************************************************)
EXTENDS BillingLedger, FiniteSetTheorems, TLAPS

-----------------------------------------------------------------------------
(* The laws of Total, the sum of Money, for every finite set of rows.       *)

(* The rows of a finite set hold finitely many units.                       *)
LEMMA UnitsFinite ==
  ASSUME NEW S, IsFiniteSet(S), NEW f, \A x \in S : f[x] \in Nat
  PROVE  IsFiniteSet(Units(S, f))
<1> DEFINE row(x) == {x} \X (1..f[x])
           rows == {row(x) : x \in S}
           e == [x \in S |-> row(x)]
<1>1. e \in Surjection(S, rows)
  BY DEF Surjection
<1>2. IsFiniteSet(rows)
  BY <1>1, FS_Surjection
<1>3. ASSUME NEW x \in S PROVE IsFiniteSet(row(x))
  <2>1. IsFiniteSet({x})
    BY FS_Singleton
  <2>2. IsFiniteSet(1..f[x])
    BY FS_Interval
  <2> QED BY <2>1, <2>2, FS_Product
<1>4. \A T \in rows : IsFiniteSet(T)
  BY <1>3
<1>5. IsFiniteSet(UNION rows)
  BY <1>2, <1>4, FS_UNION
<1> QED BY <1>5 DEF Units

(* A sum of naturals over finitely many rows is a natural.                  *)
LEMMA TotalType ==
  ASSUME NEW S, IsFiniteSet(S), NEW f, \A x \in S : f[x] \in Nat
  PROVE  Total(S, f) \in Nat
BY UnitsFinite, FS_CardinalityType DEF Total

(* Only the values at the rows count.                                       *)
LEMMA TotalSame ==
  ASSUME NEW S, NEW f, NEW g, \A x \in S : f[x] = g[x]
  PROVE  Total(S, f) = Total(S, g)
<1>1. Units(S, f) = Units(S, g)
  BY DEF Units
<1> QED BY <1>1 DEF Total

(* A new row adds its value.                                                *)
LEMMA TotalAdd ==
  ASSUME NEW S, IsFiniteSet(S), NEW x, x \notin S, NEW f,
         \A y \in S \cup {x} : f[y] \in Nat
  PROVE  Total(S \cup {x}, f) = Total(S, f) + f[x]
<1> DEFINE row == {x} \X (1..f[x])
<1>1. Units(S \cup {x}, f) = Units(S, f) \cup row
  BY DEF Units
<1>2. Units(S, f) \cap row = {}
  BY DEF Units
<1>3. IsFiniteSet(Units(S, f))
  BY UnitsFinite
<1>4. IsFiniteSet(row) /\ Cardinality(row) = f[x]
  <2>1. IsFiniteSet({x}) /\ Cardinality({x}) = 1
    BY FS_Singleton
  <2>2. f[x] \in Nat
    OBVIOUS
  <2>3. IsFiniteSet(1..f[x]) /\ Cardinality(1..f[x]) = f[x]
    <3>1. \A n \in Nat : IsFiniteSet(1..n) /\ Cardinality(1..n) = IF 1 > n THEN 0 ELSE n - 1 + 1
      BY FS_Interval
    <3>2. \A n \in Nat : (IF 1 > n THEN 0 ELSE n - 1 + 1) = n
      OBVIOUS
    <3> QED BY <2>2, <3>1, <3>2
  <2> HIDE DEF row
  <2>4. IsFiniteSet(row) /\ Cardinality(row) = 1 * f[x]
    BY <2>1, <2>3, FS_Product DEF row
  <2> QED BY <2>4, <2>2
<1>5. Cardinality(Units(S, f)) \in Nat /\ f[x] \in Nat
  BY <1>3, FS_CardinalityType
<1> HIDE DEF row
<1>6. Cardinality(Units(S, f) \cup row)
        = Cardinality(Units(S, f)) + Cardinality(row) - Cardinality(Units(S, f) \cap row)
  BY <1>3, <1>4, FS_Union
<1>7. Cardinality(Units(S, f) \cap row) = 0
  BY <1>2, FS_EmptySet
<1>8. Cardinality(Units(S, f) \cup row) = Cardinality(Units(S, f)) + f[x]
  BY <1>4, <1>5, <1>6, <1>7
<1> QED BY <1>1, <1>8 DEF Total

(* A row that goes takes its value along.                                   *)
LEMMA TotalRemove ==
  ASSUME NEW S, IsFiniteSet(S), NEW x \in S, NEW f, \A y \in S : f[y] \in Nat
  PROVE  Total(S \ {x}, f) = Total(S, f) - f[x]
<1>1. IsFiniteSet(S \ {x})
  BY FS_RemoveElement
<1>2. (S \ {x}) \cup {x} = S
  OBVIOUS
<1>3. Total((S \ {x}) \cup {x}, f) = Total(S \ {x}, f) + f[x]
  BY <1>1, TotalAdd
<1>4. Total(S \ {x}, f) \in Nat /\ f[x] \in Nat
  BY <1>1, TotalType
<1> QED BY <1>2, <1>3, <1>4

(* Nothing is worth nothing.                                                *)
LEMMA TotalEmpty ==
  ASSUME NEW f
  PROVE  Total({}, f) = 0
<1>1. Units({}, f) = {}
  BY DEF Units
<1> QED BY <1>1, FS_EmptySet DEF Total

(* Rounding gives a natural.                                                *)
LEMMA HalfUpType ==
  ASSUME NEW n \in Nat, NEW d \in Nat \ {0}
  PROVE  HalfUp(n, d) \in Nat
BY DEF HalfUp

(* A quotient is the largest number whose multiple is at most the dividend. *)
LEMMA Quotient ==
  ASSUME NEW n \in Nat, NEW d \in Nat \ {0}
  PROVE  /\ n \div d \in Nat
         /\ d * (n \div d) <= n /\ n < d * (n \div d) + d
OBVIOUS

(* The rounded quotient is the nearest one, the greater of two.             *)
LEMMA HalfUpNearest ==
  ASSUME NEW n \in Nat, NEW d \in Nat \ {0}
  PROVE  /\ 2 * (d * HalfUp(n, d) - n) <= d
         /\ 2 * (n - d * HalfUp(n, d)) < d
<1> DEFINE q == HalfUp(n, d)
<1>1. 2 * n + d \in Nat /\ 2 * d \in Nat \ {0}
  OBVIOUS
<1>2. q \in Nat /\ (2 * d) * q <= 2 * n + d /\ 2 * n + d < (2 * d) * q + 2 * d
  BY <1>1, Quotient DEF HalfUp
<1> HIDE DEF q
<1>3. (2 * d) * q = 2 * (d * q) /\ d * q \in Nat
  BY <1>2
<1>4. 2 * (d * q - n) <= d /\ 2 * (n - d * q) < d
  BY <1>2, <1>3
<1> QED BY <1>4 DEF q

-----------------------------------------------------------------------------
(* The invariant of the ledger.                                             *)

(* An operation belongs to a user with an account.                          *)
OwnersKnown == \A o \in Operations : status[o] # "none" => Owner[o] \in accounts

CallsFinite == \A o \in Operations : IsFiniteSet(calls[o])

LedgerInv == TypeOK /\ CallsFinite /\ OwnersKnown /\ Solvent

Open(u) == {o \in Operations : Owner[o] = u /\ Pending(o)}

-----------------------------------------------------------------------------
(* What is reserved is a natural number.                                    *)
LEMMA ReservedType ==
  ASSUME TypeOK, NEW u
  PROVE  IsFiniteSet(Open(u)) /\ Reserved(u) \in Nat
<1>1. IsFiniteSet(Open(u))
  BY OperationsAssumption, FS_Subset DEF Open
<1>2. \A o \in Open(u) : budget[o] \in Nat
  BY DEF Open, TypeOK
<1>3. Total(Open(u), budget) \in Nat
  BY <1>1, <1>2, TotalType
<1> QED BY <1>1, <1>3 DEF Reserved, Open

(* A step that moves no operation in or out of the pending states, and no   *)
(* budget, leaves every reservation as it is.                               *)
LEMMA ReservedSame ==
  ASSUME UNCHANGED budget, \A o \in Operations : Pending(o)' = Pending(o), NEW u
  PROVE  Reserved(u)' = Reserved(u)
<1>1. Open(u)' = Open(u)
  BY DEF Open
<1> QED BY <1>1 DEF Reserved, Open

(* A charge is a natural number that the reservation covers.                *)
LEMMA ChargeCovered ==
  ASSUME TypeOK, NEW o \in Operations, NEW outcome \in Final
  PROVE  Charge(o, outcome) \in 0..budget[o]
<1>1. budget[o] \in Nat /\ consumed[o] \in Nat
  BY DEF TypeOK
<1>2. HalfUp(consumed[o], Scale) \in Nat
  BY <1>1, CostsAssumption, HalfUpType
<1> QED BY <1>1, <1>2 DEF Charge, Least

(* What an operation reserves is part of what its owner has reserved.       *)
LEMMA ReservationCounted ==
  ASSUME TypeOK, NEW o \in Operations, Pending(o)
  PROVE  /\ Total(Open(Owner[o]) \ {o}, budget) = Reserved(Owner[o]) - budget[o]
         /\ Total(Open(Owner[o]) \ {o}, budget) \in Nat
<1>1. IsFiniteSet(Open(Owner[o])) /\ o \in Open(Owner[o])
  BY ReservedType DEF Open
<1>2. \A p \in Open(Owner[o]) : budget[p] \in Nat
  BY DEF Open, TypeOK
<1>3. Total(Open(Owner[o]) \ {o}, budget) = Total(Open(Owner[o]), budget) - budget[o]
  BY <1>1, <1>2, TotalRemove
<1>4. IsFiniteSet(Open(Owner[o]) \ {o})
  BY <1>1, FS_RemoveElement
<1>5. Total(Open(Owner[o]) \ {o}, budget) \in Nat
  BY <1>2, <1>4, TotalType
<1> QED BY <1>3, <1>5 DEF Reserved, Open

-----------------------------------------------------------------------------
(* A posted entry has the type of its table.                                *)
LEMMA EntryType ==
  ASSUME NEW key \in Keys, NEW u \in Users, NEW n \in Int
  PROVE  Entry(key, u, n) \in [key : Keys, user : Users, amount : Int]
BY DEF Entry

(* The migrated ledger satisfies the invariant.                             *)
LEMMA LedgerInvInit == LedgerInit => LedgerInv
<1> SUFFICES ASSUME LedgerInit PROVE LedgerInv
  OBVIOUS
<1>1. TypeOK
  <2>1. \A u \in Existing : Entry(<<"migration", u>>, u, -Legacy[u])
                             \in [key : Keys, user : Users, amount : Int]
    <3>1. \A u \in Existing : <<"migration", u>> \in Keys /\ -Legacy[u] \in Int
      BY MigrationAssumption DEF Keys
    <3> QED BY <3>1, MigrationAssumption, EntryType
  <2>2. entries \subseteq [key : Keys, user : Users, amount : Int]
    BY <2>1 DEF LedgerInit
  <2> QED BY <2>2, MigrationAssumption, OperationsAssumption DEF LedgerInit, TypeOK
<1>2. CallsFinite
  BY FS_EmptySet DEF LedgerInit, CallsFinite
<1>3. OwnersKnown
  BY DEF LedgerInit, OwnersKnown
<1>4. Solvent
  <2> SUFFICES ASSUME NEW u \in Users PROVE Reserved(u) <= wallet[u]
    BY DEF Solvent
  <2>1. {o \in Operations : Owner[o] = u /\ Pending(o)} = {}
    BY DEF LedgerInit, Pending
  <2>2. Reserved(u) = 0
    BY <2>1, TotalEmpty DEF Reserved
  <2> QED BY <1>1, <2>2 DEF TypeOK
<1> QED BY <1>1, <1>2, <1>3, <1>4 DEF LedgerInv

-----------------------------------------------------------------------------
(* Reserve: the new budget was available.                                   *)
LEMMA ReserveInv ==
  ASSUME LedgerInv, NEW o \in Operations, NEW b \in Budgets, Reserve(o, b)
  PROVE  LedgerInv'
<1> USE DEF LedgerInv
<1>1. TypeOK'
  BY AmountsAssumption DEF TypeOK, Reserve
<1>2. CallsFinite' /\ OwnersKnown'
  BY DEF TypeOK, Reserve, CallsFinite, OwnersKnown
<1>3. b \in Nat /\ b # 0
  BY AmountsAssumption
<1>4. ASSUME NEW u \in Users PROVE (Reserved(u) <= wallet[u])'
  <2>1. CASE u = Owner[o]
    <3>1. Open(u)' = Open(u) \cup {o} /\ o \notin Open(u)
      BY <2>1 DEF Open, Pending, Reserve, TypeOK
    <3>2. IsFiniteSet(Open(u)) /\ Reserved(u) \in Nat
      BY ReservedType
    <3>3. \A p \in Open(u) \cup {o} : budget'[p] \in Nat
      BY <1>1 DEF TypeOK, Open
    <3>4. Total(Open(u) \cup {o}, budget') = Total(Open(u), budget') + budget'[o]
      BY <3>1, <3>2, <3>3, TotalAdd
    <3>5. Total(Open(u), budget') = Total(Open(u), budget)
      <4>1. \A p \in Open(u) : budget'[p] = budget[p]
        BY <3>1 DEF Reserve, TypeOK, Open
      <4> QED BY <4>1, TotalSame
    <3>6. Reserved(u)' = Reserved(u) + b
      BY <3>1, <3>4, <3>5 DEF Reserved, Open, Reserve, TypeOK
    <3> QED BY <1>3, <2>1, <3>2, <3>6 DEF Reserve, TypeOK
  <2>2. CASE u # Owner[o]
    <3>1. Open(u)' = Open(u)
      BY <2>2 DEF Open, Pending, Reserve, TypeOK
    <3>2. \A p \in Open(u) : budget'[p] = budget[p]
      BY <2>2 DEF Open, Reserve, TypeOK
    <3>3. Total(Open(u), budget') = Total(Open(u), budget)
      BY <3>2, TotalSame
    <3>4. Reserved(u)' = Reserved(u)
      BY <3>1, <3>3 DEF Reserved, Open
    <3> QED BY <3>4 DEF Reserve, Solvent
  <2> QED BY <2>1, <2>2
<1>5. Solvent'
  BY <1>4 DEF Solvent
<1> QED BY <1>1, <1>2, <1>5

(* Steps that leave budgets, balances and the set of pending operations.    *)
LEMMA SolventSame ==
  ASSUME Solvent, UNCHANGED <<budget, wallet>>,
         \A o \in Operations : Pending(o)' = Pending(o)
  PROVE  Solvent'
BY ReservedSame DEF Solvent

LEMMA StartedInv ==
  ASSUME LedgerInv, NEW o \in Operations, Started(o)
  PROVE  LedgerInv'
<1> USE DEF LedgerInv
<1>1. TypeOK'
  BY DEF TypeOK, Started
<1>2. CallsFinite' /\ OwnersKnown'
  BY DEF TypeOK, Started, CallsFinite, OwnersKnown
<1>3. Solvent'
  BY SolventSame DEF Started, Pending, TypeOK
<1> QED BY <1>1, <1>2, <1>3

(* RecordCall: the sum over the calls stays a natural number.               *)
LEMMA RecordCallInv ==
  ASSUME LedgerInv, NEW o \in Operations, NEW c \in Calls, NEW k \in Costs, RecordCall(o, c, k)
  PROVE  LedgerInv'
<1> USE DEF LedgerInv
<1>1. calls' \in [Operations -> SUBSET [id : Calls, cost : Costs]]
  BY DEF TypeOK, RecordCall
<1>2. \A p \in Operations : IsFiniteSet(calls'[p])
  <2>1. IsFiniteSet(calls[o] \cup {[id |-> c, cost |-> k]})
    BY FS_AddElement DEF CallsFinite
  <2> QED BY <2>1 DEF CallsFinite, RecordCall, TypeOK
<1>3. CostOf(calls'[o]) \in Nat
  <2>1. \A r \in calls'[o] : [x \in calls'[o] |-> x.cost][r] \in Nat
    <3>1. \A r \in calls'[o] : r \in [id : Calls, cost : Costs]
      BY <1>1
    <3>2. \A r \in calls'[o] : r.cost \in Nat
      BY <3>1, CostsAssumption
    <3> QED BY <3>2
  <2>2. Total(calls'[o], [x \in calls'[o] |-> x.cost]) \in Nat
    BY <1>2, <2>1, TotalType
  <2> QED BY <2>2 DEF CostOf
<1>4. TypeOK'
  BY <1>1, <1>3 DEF TypeOK, RecordCall
<1>5. CallsFinite' /\ OwnersKnown'
  BY <1>2 DEF RecordCall, CallsFinite, OwnersKnown
<1>6. Solvent'
  BY SolventSame DEF RecordCall, Pending
<1> QED BY <1>4, <1>5, <1>6

(* An intent moves a pending operation to another pending state.            *)
LEMMA SetIntentInv ==
  ASSUME LedgerInv, NEW o \in Operations, NEW outcome \in Final, SetIntent(o, outcome),
         UNCHANGED <<accounts, wallet, budget, consumed, charged, calls, entries, invite>>,
         saved' \subseteq Operations
  PROVE  LedgerInv'
<1> USE DEF LedgerInv
<1>1. TypeOK'
  BY DEF TypeOK, SetIntent, Pending
<1>2. CallsFinite' /\ OwnersKnown'
  BY DEF TypeOK, SetIntent, Pending, CallsFinite, OwnersKnown
<1>3. Solvent'
  BY SolventSame DEF SetIntent, Pending, TypeOK
<1> QED BY <1>1, <1>2, <1>3

LEMMA FinalizeInv ==
  ASSUME LedgerInv, NEW o \in Operations, NEW outcome \in Final, Finalize(o, outcome)
  PROVE  LedgerInv'
BY SetIntentInv DEF Finalize, LedgerInv, TypeOK

LEMMA SaveResultInv ==
  ASSUME LedgerInv, NEW o \in Operations, SaveResult(o)
  PROVE  LedgerInv'
BY SetIntentInv DEF SaveResult, LedgerInv, TypeOK, Final

(* settle: the charge comes out of the reservation it releases.             *)
LEMMA SettleFirstSolvent ==
  ASSUME LedgerInv, NEW o \in Operations, NEW outcome \in Final, SettleFirst(o, outcome),
         UNCHANGED budget, NEW u \in Users
  PROVE  (Reserved(u) <= wallet[u])'
<1> USE DEF LedgerInv
<1>1. Charge(o, outcome) \in Int /\ Charge(o, outcome) <= budget[o] /\ budget[o] \in Nat
  BY ChargeCovered DEF TypeOK
<1>2. CASE u = Owner[o]
  <2>1. Open(u)' = Open(u) \ {o}
    BY <1>2 DEF Open, Pending, SettleFirst, TypeOK, Final
  <2>2. Reserved(u)' = Reserved(u) - budget[o]
    BY <1>2, <2>1, ReservationCounted DEF Reserved, Open, SettleFirst
  <2>3. wallet'[u] = wallet[u] - Charge(o, outcome)
    BY <1>2 DEF SettleFirst, TypeOK
  <2>4. Reserved(u) \in Nat /\ wallet[u] \in Nat /\ Reserved(u) <= wallet[u]
    BY ReservedType DEF TypeOK, Solvent
  <2> QED BY <1>1, <2>2, <2>3, <2>4
<1>3. CASE u # Owner[o]
  <2>1. Open(u)' = Open(u)
    BY <1>3 DEF Open, Pending, SettleFirst, TypeOK
  <2>2. Reserved(u)' = Reserved(u)
    BY <2>1 DEF Reserved, Open
  <2>3. wallet'[u] = wallet[u]
    BY <1>3 DEF SettleFirst, TypeOK
  <2> QED BY <2>2, <2>3 DEF Solvent
<1> QED BY <1>2, <1>3

LEMMA SettleInv ==
  ASSUME LedgerInv, NEW o \in Operations, NEW outcome \in Final, Settle(o, outcome)
  PROVE  LedgerInv'
<1> USE DEF LedgerInv
<1>1. CASE SettleFirst(o, outcome)
  <2>1. Solvent'
    BY <1>1, SettleFirstSolvent DEF Solvent, Settle
  <2>2. wallet' \in [Users -> Nat]
    <3>1. Owner[o] \in Users
      BY OperationsAssumption
    <3>2. Charge(o, outcome) \in 0..budget[o] /\ budget[o] \in Nat
      BY ChargeCovered DEF TypeOK
    <3>3. Total(Open(Owner[o]) \ {o}, budget) \in Nat
          /\ Total(Open(Owner[o]) \ {o}, budget) = Reserved(Owner[o]) - budget[o]
      BY <1>1, ReservationCounted DEF SettleFirst
    <3>4. Reserved(Owner[o]) \in Nat /\ Reserved(Owner[o]) <= wallet[Owner[o]]
      BY <3>1, ReservedType DEF Solvent
    <3>5. wallet[Owner[o]] \in Nat /\ wallet[Owner[o]] - Charge(o, outcome) \in Nat
      BY <3>1, <3>2, <3>3, <3>4 DEF TypeOK
    <3> QED BY <1>1, <3>1, <3>5 DEF SettleFirst, TypeOK
  <2>3. Charge(o, outcome) \in Nat /\ -Charge(o, outcome) \in Int
    BY ChargeCovered
  <2>4. entries' \subseteq [key : Keys, user : Users, amount : Int]
    <3>1. <<"settle", o>> \in Keys /\ Owner[o] \in Users
      BY OperationsAssumption DEF Keys
    <3> QED BY <1>1, <2>3, <3>1, EntryType DEF SettleFirst, TypeOK
  <2>5. TypeOK'
    BY <1>1, <2>2, <2>3, <2>4 DEF SettleFirst, Settle, TypeOK
  <2>6. CallsFinite' /\ OwnersKnown'
    BY <1>1 DEF SettleFirst, Settle, Pending, CallsFinite, OwnersKnown, TypeOK
  <2> QED BY <2>1, <2>5, <2>6
<1>2. CASE SettleAgain(o)
  <2>1. TypeOK'
    BY <1>2 DEF SettleAgain, Settle, TypeOK
  <2>2. CallsFinite' /\ OwnersKnown'
    BY <1>2 DEF SettleAgain, Settle, CallsFinite, OwnersKnown
  <2>3. Solvent'
    BY <1>2, SolventSame DEF SettleAgain, Settle, Pending
  <2> QED BY <2>1, <2>2, <2>3
<1> QED BY <1>1, <1>2 DEF Settle

-----------------------------------------------------------------------------
(* Adjust: a deduction leaves what is reserved.                             *)
LEMMA AdjustInv ==
  ASSUME LedgerInv, NEW r \in Requests, NEW u \in Users, NEW n \in Changes, Adjust(r, u, n)
  PROVE  LedgerInv'
<1> USE DEF LedgerInv
<1>1. n \in Int
  BY AmountsAssumption
<1>2. Reserved(u) \in Nat /\ wallet[u] \in Nat /\ wallet[u] + n \in Nat
  BY <1>1, ReservedType DEF Adjust, TypeOK
<1>3. entries' \subseteq [key : Keys, user : Users, amount : Int]
  <2>1. <<"adjust", r>> \in Keys
    BY DEF Keys
  <2> QED BY <1>1, <2>1, EntryType DEF Adjust, TypeOK
<1>4. TypeOK'
  BY <1>2, <1>3 DEF Adjust, TypeOK
<1>5. CallsFinite' /\ OwnersKnown'
  BY DEF Adjust, CallsFinite, OwnersKnown
<1>6. \A v \in Users : Reserved(v)' = Reserved(v)
  BY ReservedSame DEF Adjust, Pending
<1>7. Solvent'
  BY <1>1, <1>2, <1>6 DEF Adjust, Solvent, TypeOK
<1> QED BY <1>4, <1>5, <1>7

LEMMA CreateInvitesInv ==
  ASSUME LedgerInv, NEW r \in Requests, NEW codes \in SUBSET Codes, NEW g \in Grants,
         CreateInvites(r, codes, g)
  PROVE  LedgerInv'
<1> USE DEF LedgerInv
<1>1. TypeOK'
  BY DEF CreateInvites, TypeOK
<1>2. CallsFinite' /\ OwnersKnown'
  BY DEF CreateInvites, CallsFinite, OwnersKnown
<1>3. Solvent'
  BY SolventSame DEF CreateInvites, Pending
<1> QED BY <1>1, <1>2, <1>3

(* RegisterInvited: a user without an account has reserved nothing, so the  *)
(* grant may become the whole balance.                                      *)
LEMMA RegisterInvitedInv ==
  ASSUME LedgerInv, NEW u \in Users, NEW c \in Codes, RegisterInvited(u, c)
  PROVE  LedgerInv'
<1> USE DEF LedgerInv
<1> DEFINE g == invite[c].grant
<1>1. g \in Nat
  <2>1. invite[c] \in [issued : Requests \cup {None}, grant : Grants \cup {0},
                       usedBy : Users \cup {None}]
    BY DEF TypeOK
  <2>2. g \in Grants \cup {0}
    BY <2>1
  <2>3. \A x \in Grants \cup {0} : x \in Nat
    BY AmountsAssumption
  <2> HIDE DEF g
  <2> QED BY <2>2, <2>3
<1>2. entries' \subseteq [key : Keys, user : Users, amount : Int]
  <2>1. <<"invite", c>> \in Keys /\ g \in Int
    BY <1>1 DEF Keys
  <2>2. Entry(<<"invite", c>>, u, g) \in [key : Keys, user : Users, amount : Int]
    BY <2>1, EntryType
  <2> QED BY <2>2 DEF RegisterInvited, TypeOK
<1>3. TypeOK'
  <2>1. accounts' \subseteq Users /\ wallet' \in [Users -> Nat]
    BY <1>1 DEF RegisterInvited, TypeOK
  <2>2. invite' \in [Codes -> [issued : Requests \cup {None}, grant : Grants \cup {0},
                              usedBy : Users \cup {None}]]
    BY DEF RegisterInvited, TypeOK
  <2>3. UNCHANGED <<status, budget, consumed, charged, calls, saved, intent>>
    BY DEF RegisterInvited
  <2> QED BY <1>2, <2>1, <2>2, <2>3 DEF TypeOK
<1>4. CallsFinite' /\ OwnersKnown'
  BY DEF RegisterInvited, CallsFinite, OwnersKnown
<1>5. \A v \in Users : Reserved(v)' = Reserved(v)
  BY ReservedSame DEF RegisterInvited, Pending
<1>6. Reserved(u) = 0
  <2>1. {o \in Operations : Owner[o] = u /\ Pending(o)} = {}
    BY DEF RegisterInvited, OwnersKnown, Pending
  <2> QED BY <2>1, TotalEmpty DEF Reserved
<1>7. Solvent'
  BY <1>1, <1>5, <1>6 DEF RegisterInvited, Solvent, TypeOK
<1> QED BY <1>3, <1>4, <1>7

-----------------------------------------------------------------------------
LEMMA LedgerInvStutter == LedgerInv /\ UNCHANGED ledgerVars => LedgerInv'
<1> SUFFICES ASSUME LedgerInv, UNCHANGED ledgerVars PROVE LedgerInv'
  OBVIOUS
<1>1. Solvent'
  BY SolventSame DEF LedgerInv, ledgerVars, Pending
<1> QED BY <1>1 DEF LedgerInv, ledgerVars, TypeOK, CallsFinite, OwnersKnown

(* Every method of the ledger preserves the invariant.                      *)
LEMMA LedgerInvStep == LedgerInv /\ [LedgerNext]_ledgerVars => LedgerInv'
<1> SUFFICES ASSUME LedgerInv, [LedgerNext]_ledgerVars PROVE LedgerInv'
  OBVIOUS
<1>1. CASE UNCHANGED ledgerVars
  BY <1>1, LedgerInvStutter
<1>2. ASSUME NEW o \in Operations, OperationStep(o) PROVE LedgerInv'
  BY <1>2, ReserveInv, StartedInv, RecordCallInv, SaveResultInv, FinalizeInv, SettleInv
     DEF OperationStep
<1>3. CASE AdminStep
  BY <1>3, AdjustInv, CreateInvitesInv, RegisterInvitedInv DEF AdminStep
<1> QED BY <1>1, <1>2, <1>3 DEF LedgerNext

(* Whatever the callers do, the ledger is well formed.                      *)
THEOREM TypeCorrect == LedgerSpec => []TypeOK
<1>1. LedgerInv => TypeOK
  BY DEF LedgerInv
<1> QED BY <1>1, LedgerInvInit, LedgerInvStep, PTL DEF LedgerSpec

(* Nobody ever owes: reservations, charges and deductions in any order leave*)
(* every balance at or above what is reserved.                              *)
THEOREM NobodyOwes == LedgerSpec => []Solvent
<1>1. LedgerInv => Solvent
  BY DEF LedgerInv
<1> QED BY <1>1, LedgerInvInit, LedgerInvStep, PTL DEF LedgerSpec

-----------------------------------------------------------------------------
(* The statement of one operation adds up.                                  *)
Consistent(o) ==
  /\ consumed[o] = CostOf(calls[o])
  /\ Posted(<<"settle", o>>) <=> status[o] \in Final
  /\ status[o] \in Final =>
       /\ charged[o] = Charge(o, status[o])
       /\ Entry(<<"settle", o>>, Owner[o], -charged[o]) \in entries

Statements == \A o \in Operations : Consistent(o)

StatementInv == LedgerInv /\ Statements /\ IntentClosesExecution

LEMMA Monotone ==
  ASSUME NEW d \in Nat, NEW m \in Nat, NEW n \in Nat, m <= n
  PROVE  d * m <= d * n /\ d * m \in Nat
OBVIOUS

(* What settle takes is a fair charge.                                      *)
LEMMA ChargeFair ==
  ASSUME TypeOK, NEW o \in Operations, NEW outcome \in Final, outcome # "failed",
         charged[o] = Charge(o, outcome)
  PROVE  FairlyCharged(o)
<1> DEFINE h == HalfUp(consumed[o], Scale)
<1>1. budget[o] \in Nat /\ consumed[o] \in Nat /\ Scale \in Nat \ {0}
  BY CostsAssumption DEF TypeOK
<1>2. h \in Nat
  BY <1>1, HalfUpType
<1>3. 2 * (Scale * h - consumed[o]) <= Scale /\ 2 * (consumed[o] - Scale * h) < Scale
  BY ONLY <1>1, HalfUpNearest
<1>4. charged[o] = IF budget[o] <= h THEN budget[o] ELSE h
  BY DEF Charge, Least
<1> HIDE DEF h
<1>5. Scale * h \in Nat
  BY <1>1, <1>2, Monotone
<1>6. CASE budget[o] <= h
  <2>1. Scale * budget[o] <= Scale * h /\ Scale * budget[o] \in Nat
    BY <1>1, <1>2, <1>6, Monotone
  <2>2. 2 * (Scale * budget[o] - consumed[o]) <= Scale
    BY <1>1, <1>3, <1>5, <2>1
  <2> QED BY <1>1, <1>4, <1>6, <2>2 DEF FairlyCharged
<1>7. CASE ~(budget[o] <= h)
  BY <1>1, <1>2, <1>3, <1>4, <1>5, <1>7 DEF FairlyCharged
<1> QED BY <1>6, <1>7

LEMMA StatementsAddUp ==
  ASSUME TypeOK, Statements
  PROVE  StatementAddsUp
<1> SUFFICES ASSUME NEW o \in Operations, status[o] \in Final
             PROVE  IF status[o] = "failed" THEN charged[o] = 0 ELSE FairlyCharged(o)
  BY DEF Statements, Consistent, StatementAddsUp
<1>1. charged[o] = Charge(o, status[o])
  BY DEF Statements, Consistent
<1> QED BY <1>1, ChargeFair DEF Charge

(* Steps that change neither the calls, the charge, the final status nor the*)
(* settlement entry of an operation keep its statement.                     *)
LEMMA ConsistentSame ==
  ASSUME NEW p \in Operations, Consistent(p),
         (UNCHANGED <<budget, consumed, charged, calls>>)
           \/ (/\ consumed'[p] = consumed[p] /\ charged'[p] = charged[p]
               /\ calls'[p] = calls[p] /\ budget'[p] = budget[p]),
         status'[p] \in Final <=> status[p] \in Final,
         status[p] \in Final => status'[p] = status[p],
         entries \subseteq entries',
         \A e \in entries' \ entries : e.key # <<"settle", p>>
  PROVE  Consistent(p)'
<1>1. /\ consumed'[p] = consumed[p] /\ charged'[p] = charged[p]
      /\ calls'[p] = calls[p] /\ budget'[p] = budget[p]
  OBVIOUS
<1>2. (Posted(<<"settle", p>>))' <=> Posted(<<"settle", p>>)
  BY DEF Posted
<1>3. status[p] \in Final => Charge(p, status[p])' = Charge(p, status[p])
  BY <1>1 DEF Charge
<1> QED BY <1>1, <1>2, <1>3 DEF Consistent

LEMMA StatementInit == LedgerInit => StatementInv
<1> SUFFICES ASSUME LedgerInit PROVE StatementInv
  OBVIOUS
<1>1. LedgerInv
  BY LedgerInvInit
<1>2. ASSUME NEW o \in Operations PROVE Consistent(o)
  <2>1. CostOf(calls[o]) = 0
    BY TotalEmpty DEF LedgerInit, CostOf
  <2>2. ~Posted(<<"settle", o>>)
    BY DEF LedgerInit, Posted, Entry
  <2> QED BY <2>1, <2>2 DEF LedgerInit, Consistent, Final
<1>3. IntentClosesExecution
  BY DEF LedgerInit, IntentClosesExecution
<1> QED BY <1>1, <1>2, <1>3 DEF StatementInv, Statements

(* Every step keeps the statement of every operation.                       *)
LEMMA StatementStep ==
  ASSUME LedgerInv, Statements, [LedgerNext]_ledgerVars, NEW p \in Operations
  PROVE  Consistent(p)'
<1> USE DEF LedgerInv
<1>0. Consistent(p)
  BY DEF Statements
<1>1. CASE UNCHANGED ledgerVars
  BY <1>0, <1>1, ConsistentSame DEF ledgerVars
<1>2. ASSUME NEW o \in Operations, NEW b \in Budgets, Reserve(o, b) PROVE Consistent(p)'
  <2>1. status'[p] \in Final <=> status[p] \in Final
    BY <1>2 DEF Reserve, TypeOK, Final
  <2>2. CASE p = o
    <3>1. calls'[p] = calls[p] /\ consumed'[p] = consumed[p] /\ entries' = entries
      BY <1>2 DEF Reserve
    <3>2. status[p] \notin Final
      BY <1>2, <2>2 DEF Reserve, Final
    <3> QED BY <1>0, <2>1, <3>1, <3>2 DEF Consistent, Posted
  <2>3. CASE p # o
    BY <1>0, <1>2, <2>1, <2>3, ConsistentSame DEF Reserve, TypeOK
  <2> QED BY <2>2, <2>3
<1>3. ASSUME NEW o \in Operations, Started(o) PROVE Consistent(p)'
  BY <1>0, <1>3, ConsistentSame DEF Started, TypeOK, Final
<1>4. ASSUME NEW o \in Operations, NEW c \in Calls, NEW k \in Costs, RecordCall(o, c, k)
      PROVE Consistent(p)'
  <2>1. CASE p = o
    <3>1. consumed'[p] = CostOf(calls'[p])
      BY <1>4, <2>1 DEF RecordCall, TypeOK
    <3>2. status'[p] = status[p] /\ status[p] \notin Final /\ entries' = entries
      BY <1>4, <2>1 DEF RecordCall, Pending, Final
    <3> QED BY <1>0, <3>1, <3>2 DEF Consistent, Posted
  <2>2. CASE p # o
    BY <1>0, <1>4, <2>2, ConsistentSame DEF RecordCall, TypeOK
  <2> QED BY <2>1, <2>2
<1>5. ASSUME NEW o \in Operations, NEW outcome \in Final, SetIntent(o, outcome),
             UNCHANGED <<budget, consumed, charged, calls, entries>>
      PROVE Consistent(p)'
  <2>1. status[p] \in Final => status'[p] = status[p]
    BY <1>5 DEF SetIntent, Pending, TypeOK, Final
  <2>2. status'[p] \in Final => status[p] \in Final
    BY <1>5 DEF SetIntent, Pending, TypeOK, Final
  <2> QED BY <1>0, <1>5, <2>1, <2>2, ConsistentSame
<1>6. ASSUME NEW o \in Operations, NEW outcome \in Final, Settle(o, outcome)
      PROVE Consistent(p)'
  <2>1. CASE SettleAgain(o)
    BY <1>0, <1>6, <2>1, ConsistentSame DEF Settle, SettleAgain
  <2>2. CASE SettleFirst(o, outcome) /\ p = o
    <3>1. Entry(<<"settle", p>>, Owner[p], -charged'[p]) \in entries'
          /\ status'[p] = outcome /\ charged'[p] = Charge(p, outcome)
      BY <2>2 DEF SettleFirst, TypeOK
    <3>2. consumed'[p] = CostOf(calls'[p])
      BY <1>0, <1>6 DEF Settle, Consistent
    <3>3. Charge(p, outcome)' = Charge(p, outcome)
      BY <1>6 DEF Settle, Charge
    <3>4. Posted(<<"settle", p>>)'
      BY <3>1 DEF Posted, Entry
    <3> QED BY <3>1, <3>2, <3>3, <3>4 DEF Consistent
  <2>3. CASE SettleFirst(o, outcome) /\ p # o
    <3>1. \A e \in entries' \ entries : e.key # <<"settle", p>>
      BY <2>3 DEF SettleFirst, Entry
    <3>2. status'[p] = status[p] /\ charged'[p] = charged[p]
      BY <2>3 DEF SettleFirst, TypeOK
    <3> QED BY <1>0, <1>6, <2>3, <3>1, <3>2, ConsistentSame DEF SettleFirst, Settle
  <2> QED BY <1>6, <2>1, <2>2, <2>3 DEF Settle
<1>7. ASSUME NEW r \in Requests, NEW u \in Users, NEW n \in Changes, Adjust(r, u, n)
      PROVE Consistent(p)'
  BY <1>0, <1>7, ConsistentSame DEF Adjust, Entry
<1>8. ASSUME NEW r \in Requests, NEW codes \in SUBSET Codes, NEW g \in Grants,
             CreateInvites(r, codes, g)
      PROVE Consistent(p)'
  BY <1>0, <1>8, ConsistentSame DEF CreateInvites
<1>9. ASSUME NEW u \in Users, NEW c \in Codes, RegisterInvited(u, c) PROVE Consistent(p)'
  BY <1>0, <1>9, ConsistentSame DEF RegisterInvited, Entry
<1>10. ASSUME NEW o \in Operations, OperationStep(o) PROVE Consistent(p)'
  <2>1. CASE SaveResult(o)
    BY <1>5, <2>1 DEF SaveResult, Final
  <2>2. ASSUME NEW outcome \in Final, Finalize(o, outcome) PROVE Consistent(p)'
    BY <1>5, <2>2 DEF Finalize
  <2> QED BY <1>2, <1>3, <1>4, <1>6, <1>10, <2>1, <2>2 DEF OperationStep
<1>11. CASE AdminStep
  BY <1>7, <1>8, <1>9, <1>11 DEF AdminStep
<1> QED BY <1>1, <1>10, <1>11 DEF LedgerNext

(* A stored intent still closes execution after every step.                 *)
LEMMA IntentStep ==
  ASSUME LedgerInv, IntentClosesExecution, [LedgerNext]_ledgerVars
  PROVE  IntentClosesExecution'
<1> USE DEF LedgerInv, IntentClosesExecution
<1>1. CASE UNCHANGED ledgerVars
  BY <1>1 DEF ledgerVars
<1>2. ASSUME NEW o \in Operations, OperationStep(o) PROVE IntentClosesExecution'
  <2>1. ASSUME NEW b \in Budgets, Reserve(o, b) PROVE IntentClosesExecution'
    BY <2>1 DEF Reserve, TypeOK, Final
  <2>2. CASE Started(o)
    BY <2>2 DEF Started, TypeOK, Final
  <2>3. ASSUME NEW c \in Calls, NEW k \in Costs, RecordCall(o, c, k)
        PROVE IntentClosesExecution'
    BY <2>3 DEF RecordCall
  <2>4. ASSUME NEW outcome \in Final, SetIntent(o, outcome), status[o] # "none"
        PROVE IntentClosesExecution'
    <3>1. status'[o] \in {"processing"} \cup Final
      BY <2>4 DEF SetIntent, Pending, TypeOK
    <3> QED BY <2>4, <3>1 DEF SetIntent, TypeOK
  <2>5. ASSUME NEW outcome \in Final, Settle(o, outcome) PROVE IntentClosesExecution'
    BY <2>5 DEF Settle, SettleFirst, SettleAgain, TypeOK
  <2> QED BY <1>2, <2>1, <2>2, <2>3, <2>4, <2>5 DEF OperationStep, SaveResult, Finalize, Final
<1>3. CASE AdminStep
  BY <1>3 DEF AdminStep, Adjust, CreateInvites, RegisterInvited
<1> QED BY <1>1, <1>2, <1>3 DEF LedgerNext

LEMMA StatementInvStep == StatementInv /\ [LedgerNext]_ledgerVars => StatementInv'
<1> SUFFICES ASSUME StatementInv, [LedgerNext]_ledgerVars PROVE StatementInv'
  OBVIOUS
<1>1. LedgerInv'
  BY LedgerInvStep DEF StatementInv
<1>2. ASSUME NEW p \in Operations PROVE Consistent(p)'
  BY StatementStep DEF StatementInv
<1>3. Statements'
  BY <1>2 DEF Statements
<1>4. IntentClosesExecution'
  BY IntentStep DEF StatementInv
<1> QED BY <1>1, <1>3, <1>4 DEF StatementInv

(* The statement a user reads adds up, always.                              *)
THEOREM StatementCorrect == LedgerSpec => []StatementAddsUp
<1>1. StatementInv => StatementAddsUp
  BY StatementsAddUp DEF StatementInv, LedgerInv
<1> QED BY <1>1, StatementInit, StatementInvStep, PTL DEF LedgerSpec

(* A stored intent closes execution, always: a call is never let through    *)
(* once an outcome is in the ledger.                                        *)
THEOREM IntentCloses == LedgerSpec => []IntentClosesExecution
<1>1. LedgerInv /\ IntentClosesExecution /\ [LedgerNext]_ledgerVars
        => LedgerInv' /\ IntentClosesExecution'
  BY LedgerInvStep, IntentStep
<1>2. LedgerInit => LedgerInv /\ IntentClosesExecution
  BY StatementInit DEF StatementInv
<1> QED BY <1>1, <1>2, PTL DEF LedgerSpec

-----------------------------------------------------------------------------
(* No step touches a settled operation.                                     *)
LEMMA FrozenStep ==
  ASSUME TypeOK, [LedgerNext]_ledgerVars, NEW p \in Operations, status[p] \in Final
  PROVE  /\ status'[p] = status[p] /\ charged'[p] = charged[p]
         /\ calls'[p] = calls[p] /\ budget'[p] = budget[p]
<1>1. CASE UNCHANGED ledgerVars
  BY <1>1 DEF ledgerVars
<1>2. ASSUME NEW o \in Operations, OperationStep(o)
      PROVE  /\ status'[p] = status[p] /\ charged'[p] = charged[p]
             /\ calls'[p] = calls[p] /\ budget'[p] = budget[p]
  <2>1. ASSUME NEW b \in Budgets, Reserve(o, b)
        PROVE  /\ status'[p] = status[p] /\ charged'[p] = charged[p]
               /\ calls'[p] = calls[p] /\ budget'[p] = budget[p]
    BY <2>1 DEF Reserve, TypeOK, Final
  <2>2. CASE Started(o)
    BY <2>2 DEF Started, TypeOK, Final
  <2>3. ASSUME NEW c \in Calls, NEW k \in Costs, RecordCall(o, c, k)
        PROVE  /\ status'[p] = status[p] /\ charged'[p] = charged[p]
               /\ calls'[p] = calls[p] /\ budget'[p] = budget[p]
    BY <2>3 DEF RecordCall, Pending, TypeOK, Final
  <2>4. ASSUME NEW outcome \in Final, SetIntent(o, outcome),
               UNCHANGED <<budget, charged, calls>>
        PROVE  /\ status'[p] = status[p] /\ charged'[p] = charged[p]
               /\ calls'[p] = calls[p] /\ budget'[p] = budget[p]
    BY <2>4 DEF SetIntent, Pending, TypeOK, Final
  <2>5. ASSUME NEW outcome \in Final, Settle(o, outcome)
        PROVE  /\ status'[p] = status[p] /\ charged'[p] = charged[p]
               /\ calls'[p] = calls[p] /\ budget'[p] = budget[p]
    BY <2>5 DEF Settle, SettleFirst, SettleAgain, Pending, TypeOK, Final
  <2> QED BY <1>2, <2>1, <2>2, <2>3, <2>4, <2>5 DEF OperationStep, SaveResult, Finalize, Final
<1>3. CASE AdminStep
  BY <1>3 DEF AdminStep, Adjust, CreateInvites, RegisterInvited
<1> QED BY <1>1, <1>2, <1>3 DEF LedgerNext

(* What the user was told of a settled operation never changes.             *)
THEOREM FinalStaysFinal == LedgerSpec => FinalIsFrozen
<1>1. LedgerInv /\ [LedgerNext]_ledgerVars =>
        [\A o \in Operations : status[o] \in Final =>
           /\ status'[o] = status[o] /\ charged'[o] = charged[o]
           /\ calls'[o] = calls[o] /\ budget'[o] = budget[o]]_ledgerVars
  BY FrozenStep DEF LedgerInv
<1> QED BY <1>1, LedgerInvInit, LedgerInvStep, PTL DEF LedgerSpec, FinalIsFrozen

-----------------------------------------------------------------------------
(* The entries explain the balance.  A posted entry is new, so each counts  *)
(* once; a user who registers has none yet, and a code has paid only if it  *)
(* was used.                                                                *)
Migrated(u) == IF u \in Existing THEN Legacy[u] ELSE 0

Credited(u) == Total(Credits(u), [e \in Credits(u) |-> e.amount])
Debited(u) == Total(Debits(u), [e \in Debits(u) |-> -e.amount])

BooksFinite == \A u \in Users : IsFiniteSet(Credits(u)) /\ IsFiniteSet(Debits(u))

Newcomers ==
  /\ Existing \subseteq accounts
  /\ \A e \in entries : e.user \in accounts

GrantsOnce ==
  \A c \in Codes :
    /\ Posted(<<"invite", c>>) => invite[c].usedBy # None
    /\ invite[c].usedBy # None => invite[c].issued # None

BooksInv == LedgerInv /\ BooksFinite /\ Newcomers /\ GrantsOnce /\ Reconciled

(* Both sums are natural numbers.                                           *)
LEMMA BooksType ==
  ASSUME TypeOK, BooksFinite, NEW u \in Users
  PROVE  Credited(u) \in Nat /\ Debited(u) \in Nat
<1>1. \A e \in entries : e.amount \in Int
  BY DEF TypeOK
<1>2. \A e \in Credits(u) : [x \in Credits(u) |-> x.amount][e] \in Nat
  BY <1>1 DEF Credits
<1>3. \A e \in Debits(u) : [x \in Debits(u) |-> -x.amount][e] \in Nat
  BY <1>1 DEF Debits
<1> QED BY <1>2, <1>3, TotalType DEF Credited, Debited, BooksFinite

(* Posting an entry of n to user v changes the books of v by n.             *)
LEMMA Post ==
  ASSUME TypeOK, TypeOK', BooksFinite, NEW key, NEW v \in Users, NEW n \in Int,
         ~Posted(key), entries' = entries \cup {Entry(key, v, n)}, NEW u \in Users
  PROVE  /\ IsFiniteSet(Credits(u))' /\ IsFiniteSet(Debits(u))'
         /\ Credited(u)' \in Nat /\ Debited(u)' \in Nat
         /\ Credited(u)' - Debited(u)'
              = Credited(u) - Debited(u) + (IF u = v THEN n ELSE 0)
<1> DEFINE x == Entry(key, v, n)
<1>1. x.key = key /\ x.user = v /\ x.amount = n /\ x \notin entries /\ x \in entries'
  BY DEF Posted, Entry
<1>2. \A e \in entries' : e.amount \in Int
  BY DEF TypeOK
<1>3. IsFiniteSet(Credits(u)) /\ IsFiniteSet(Debits(u))
  BY DEF BooksFinite
<1>4. Credited(u) \in Nat /\ Debited(u) \in Nat
  BY BooksType
<1> HIDE DEF x
<1>5. CASE u = v /\ n > 0
  <2>1. Credits(u)' = Credits(u) \cup {x} /\ x \notin Credits(u) /\ Debits(u)' = Debits(u)
    BY <1>1, <1>5 DEF Credits, Debits, x
  <2> DEFINE f == [e \in Credits(u) \cup {x} |-> e.amount]
  <2>2. \A e \in Credits(u) \cup {x} : f[e] \in Nat
    BY <1>1, <1>2, <1>5 DEF Credits
  <2>3. f[x] = n
    BY <1>1
  <2>4. \A e \in Credits(u) : f[e] = [d \in Credits(u) |-> d.amount][e]
    OBVIOUS
  <2> HIDE DEF f
  <2>5. Total(Credits(u) \cup {x}, f) = Total(Credits(u), f) + n
    BY <1>3, <2>1, <2>2, <2>3, TotalAdd
  <2>6. Total(Credits(u), f) = Credited(u)
    BY <2>4, TotalSame DEF Credited
  <2>7. Credited(u)' = Credited(u) + n
    BY <2>1, <2>5, <2>6 DEF Credited, f
  <2>8. Debited(u)' = Debited(u)
    BY <2>1 DEF Debited
  <2>9. IsFiniteSet(Credits(u) \cup {x})
    BY <1>3, FS_AddElement
  <2> QED BY <1>3, <1>4, <1>5, <2>1, <2>7, <2>8, <2>9
<1>6. CASE u = v /\ n < 0
  <2>1. Debits(u)' = Debits(u) \cup {x} /\ x \notin Debits(u) /\ Credits(u)' = Credits(u)
    BY <1>1, <1>6 DEF Credits, Debits, x
  <2> DEFINE f == [e \in Debits(u) \cup {x} |-> -e.amount]
  <2>2. \A e \in Debits(u) \cup {x} : f[e] \in Nat
    BY <1>1, <1>2, <1>6 DEF Debits
  <2>3. f[x] = -n
    BY <1>1
  <2>4. \A e \in Debits(u) : f[e] = [d \in Debits(u) |-> -d.amount][e]
    OBVIOUS
  <2> HIDE DEF f
  <2>5. Total(Debits(u) \cup {x}, f) = Total(Debits(u), f) - n
    <3>1. Total(Debits(u) \cup {x}, f) = Total(Debits(u), f) + f[x]
      BY <1>3, <2>1, <2>2, TotalAdd
    <3>2. Total(Debits(u), f) \in Nat
      BY <1>3, <2>2, TotalType
    <3> QED BY <2>3, <3>1, <3>2
  <2>6. Total(Debits(u), f) = Debited(u)
    BY <2>4, TotalSame DEF Debited
  <2>7. Debited(u)' = Debited(u) - n
    BY <2>1, <2>5, <2>6 DEF Debited, f
  <2>8. Credited(u)' = Credited(u)
    BY <2>1 DEF Credited
  <2>9. IsFiniteSet(Debits(u) \cup {x})
    BY <1>3, FS_AddElement
  <2> QED BY <1>3, <1>4, <1>6, <2>1, <2>7, <2>8, <2>9
<1>7. CASE u # v \/ n = 0
  <2>1. Credits(u)' = Credits(u) /\ Debits(u)' = Debits(u)
    BY <1>1, <1>7 DEF Credits, Debits, x
  <2>2. Credited(u)' = Credited(u) /\ Debited(u)' = Debited(u)
    BY <2>1 DEF Credited, Debited
  <2> QED BY <1>3, <1>4, <1>7, <2>1, <2>2
<1> QED BY <1>5, <1>6, <1>7

LEMMA ReconciledDef ==
  Reconciled <=> \A u \in Users : wallet[u] = Migrated(u) + Credited(u) - Debited(u)
BY DEF Reconciled, Migrated, Credited, Debited

(* A user without an account has no entry.                                  *)
LEMMA NewcomerHasNothing ==
  ASSUME BooksInv, NEW u \in Users \ accounts
  PROVE  wallet[u] = 0
<1>1. Credits(u) = {} /\ Debits(u) = {} /\ Migrated(u) = 0
  BY DEF BooksInv, Newcomers, Credits, Debits, Migrated
<1>2. Credited(u) = 0 /\ Debited(u) = 0
  BY <1>1, TotalEmpty DEF Credited, Debited
<1> QED BY <1>1, <1>2, ReconciledDef DEF BooksInv

(* One entry and the same change of the balance keep the books.             *)
LEMMA PostKeeps ==
  ASSUME BooksInv, TypeOK', NEW key, NEW v \in Users, NEW n \in Int, ~Posted(key),
         entries' = entries \cup {Entry(key, v, n)},
         wallet' = [wallet EXCEPT ![v] = wallet[v] + n]
  PROVE  BooksFinite' /\ Reconciled'
<1>1. BooksFinite'
  BY Post DEF BooksInv, LedgerInv, BooksFinite
<1>2. ASSUME NEW u \in Users
      PROVE  wallet'[u] = Migrated(u) + Credited(u)' - Debited(u)'
  <2>1. Credited(u)' - Debited(u)' = Credited(u) - Debited(u) + (IF u = v THEN n ELSE 0)
    BY Post DEF BooksInv, LedgerInv
  <2>2. Credited(u)' \in Nat /\ Debited(u)' \in Nat
    BY Post DEF BooksInv, LedgerInv
  <2>3. Credited(u) \in Nat /\ Debited(u) \in Nat
    BY BooksType DEF BooksInv, LedgerInv
  <2>4. Migrated(u) \in Int
    BY MigrationAssumption DEF Migrated
  <2>5. wallet[u] = Migrated(u) + Credited(u) - Debited(u)
    BY ReconciledDef DEF BooksInv
  <2>6. wallet'[u] = wallet[u] + (IF u = v THEN n ELSE 0)
    BY DEF BooksInv, LedgerInv, TypeOK
  <2> QED BY <2>1, <2>2, <2>3, <2>4, <2>5, <2>6
<1>3. Reconciled'
  BY <1>2 DEF Reconciled, Migrated, Credited, Debited
<1> QED BY <1>1, <1>3

LEMMA BooksSame ==
  ASSUME BooksInv, UNCHANGED <<wallet, entries>>
  PROVE  BooksFinite' /\ Reconciled'
BY DEF BooksInv, BooksFinite, Reconciled, Credits, Debits

LEMMA BooksInit == LedgerInit => BooksInv
<1> SUFFICES ASSUME LedgerInit PROVE BooksInv
  OBVIOUS
<1>1. LedgerInv
  BY LedgerInvInit
<1>2. Newcomers /\ GrantsOnce
  BY DEF LedgerInit, Newcomers, GrantsOnce, Posted, Entry
<1>3. ASSUME NEW u \in Users
      PROVE  /\ IsFiniteSet(Credits(u)) /\ IsFiniteSet(Debits(u))
             /\ wallet[u] = Migrated(u) + Credited(u) - Debited(u)
  <2> DEFINE x == Entry(<<"migration", u>>, u, -Legacy[u])
  <2>1. x.user = u /\ x.amount = -Legacy[u]
    BY DEF Entry
  <2>2. Debits(u) = {}
    BY MigrationAssumption DEF Debits, LedgerInit, Entry
  <2>3. Debited(u) = 0
    BY <2>2, TotalEmpty DEF Debited
  <2>4. CASE u \in Existing /\ Legacy[u] < 0
    <3>1. -Legacy[u] \in Nat /\ -Legacy[u] > 0 /\ Legacy[u] \in Int
      BY <2>4, MigrationAssumption
    <3>2. Credits(u) = {x}
      <4>1. x \in Credits(u)
        BY <2>1, <2>4, <3>1 DEF Credits, LedgerInit
      <4>2. \A e \in Credits(u) : e = x
        BY DEF Credits, LedgerInit, Entry
      <4> QED BY <4>1, <4>2
    <3> DEFINE f == [e \in {x} |-> e.amount]
    <3>3. f[x] = -Legacy[u] /\ \A e \in {x} : f[e] \in Nat
      BY <2>1, <3>1
    <3> HIDE DEF f, x
    <3>4. Total({} \cup {x}, f) = Total({}, f) + f[x]
      BY <3>3, FS_EmptySet, TotalAdd
    <3>5. Total({x}, f) = -Legacy[u]
      <4>1. {} \cup {x} = {x}
        OBVIOUS
      <4> QED BY <3>1, <3>3, <3>4, <4>1, TotalEmpty
    <3>6. Credited(u) = -Legacy[u]
      BY <3>2, <3>5 DEF Credited, f
    <3>7. wallet[u] = 0 /\ Migrated(u) = Legacy[u]
      BY <2>4, <3>1 DEF LedgerInit, Migrated
    <3>8. IsFiniteSet(Credits(u)) /\ IsFiniteSet(Debits(u))
      BY <2>2, <3>2, FS_EmptySet, FS_Singleton
    <3> QED BY <2>3, <3>1, <3>6, <3>7, <3>8
  <2>5. CASE ~(u \in Existing /\ Legacy[u] < 0)
    <3>1. Credits(u) = {}
      BY <2>5 DEF Credits, LedgerInit, Entry
    <3>2. Credited(u) = 0
      BY <3>1, TotalEmpty DEF Credited
    <3>3. wallet[u] = Migrated(u)
      BY <2>5, MigrationAssumption DEF LedgerInit, Migrated
    <3>4. wallet[u] \in Nat
      BY <1>1 DEF LedgerInv, TypeOK
    <3> QED BY <2>2, <2>3, <3>1, <3>2, <3>3, <3>4, FS_EmptySet
  <2> QED BY <2>4, <2>5
<1> QED BY <1>1, <1>2, <1>3, ReconciledDef DEF BooksInv, BooksFinite

(* Every method of the ledger keeps the books.                              *)
LEMMA BooksStep == BooksInv /\ [LedgerNext]_ledgerVars => BooksInv'
<1> SUFFICES ASSUME BooksInv, [LedgerNext]_ledgerVars PROVE BooksInv'
  OBVIOUS
<1>1. LedgerInv /\ LedgerInv' /\ TypeOK /\ TypeOK'
  BY LedgerInvStep DEF BooksInv, LedgerInv
<1>2. ASSUME UNCHANGED <<accounts, wallet, entries, invite>> PROVE BooksInv'
  <2>1. Newcomers' /\ GrantsOnce'
    BY <1>2 DEF BooksInv, Newcomers, GrantsOnce, Posted
  <2> QED BY <1>1, <1>2, <2>1, BooksSame DEF BooksInv
<1>3. ASSUME NEW o \in Operations, NEW outcome \in Final, Settle(o, outcome) PROVE BooksInv'
  <2>1. CASE SettleAgain(o)
    BY <1>2, <1>3, <2>1 DEF Settle, SettleAgain
  <2>2. CASE SettleFirst(o, outcome)
    <3> DEFINE n == -Charge(o, outcome)
    <3>1. n \in Int /\ Charge(o, outcome) \in Int
      BY <1>1, ChargeCovered DEF TypeOK
    <3>2. Owner[o] \in Users /\ Owner[o] \in accounts /\ wallet[Owner[o]] \in Nat
      BY <1>1, <2>2, OperationsAssumption
         DEF LedgerInv, OwnersKnown, SettleFirst, Pending, TypeOK
    <3>3. /\ entries' = entries \cup {Entry(<<"settle", o>>, Owner[o], n)}
          /\ wallet' = [wallet EXCEPT ![Owner[o]] = wallet[Owner[o]] + n]
          /\ ~Posted(<<"settle", o>>)
      BY <2>2, <3>1, <3>2 DEF SettleFirst
    <3> HIDE DEF n
    <3>4. BooksFinite' /\ Reconciled'
      BY <1>1, <3>1, <3>2, <3>3, PostKeeps
    <3>5. Newcomers' /\ GrantsOnce'
      BY <1>3, <3>2, <3>3 DEF BooksInv, Newcomers, GrantsOnce, Posted, Entry, Settle
    <3> QED BY <1>1, <3>4, <3>5 DEF BooksInv
  <2> QED BY <1>3, <2>1, <2>2 DEF Settle
<1>4. ASSUME NEW o \in Operations, OperationStep(o) PROVE BooksInv'
  <2>1. CASE \E b \in Budgets : Reserve(o, b)
    BY <1>2, <2>1 DEF Reserve
  <2>2. CASE Started(o)
    BY <1>2, <2>2 DEF Started
  <2>3. CASE \E c \in Calls, k \in Costs : RecordCall(o, c, k)
    BY <1>2, <2>3 DEF RecordCall
  <2>4. CASE SaveResult(o)
    BY <1>2, <2>4 DEF SaveResult
  <2>5. ASSUME NEW outcome \in Final, Finalize(o, outcome) PROVE BooksInv'
    BY <1>2, <2>5 DEF Finalize
  <2> QED BY <1>3, <1>4, <2>1, <2>2, <2>3, <2>4, <2>5 DEF OperationStep
<1>5. ASSUME NEW r \in Requests, NEW u \in Users, NEW n \in Changes, Adjust(r, u, n)
      PROVE BooksInv'
  <2>1. n \in Int
    BY AmountsAssumption
  <2>2. BooksFinite' /\ Reconciled'
    BY <1>1, <1>5, <2>1, PostKeeps DEF Adjust
  <2>3. Newcomers' /\ GrantsOnce'
    BY <1>5 DEF BooksInv, Newcomers, GrantsOnce, Posted, Entry, Adjust
  <2> QED BY <1>1, <2>2, <2>3 DEF BooksInv
<1>6. ASSUME NEW r \in Requests, NEW codes \in SUBSET Codes, NEW g \in Grants,
             CreateInvites(r, codes, g)
      PROVE BooksInv'
  <2>1. Newcomers' /\ GrantsOnce'
    BY <1>6 DEF BooksInv, Newcomers, GrantsOnce, Posted, CreateInvites
  <2> QED BY <1>1, <1>6, <2>1, BooksSame DEF BooksInv, CreateInvites
<1>7. ASSUME NEW u \in Users, NEW c \in Codes, RegisterInvited(u, c) PROVE BooksInv'
  <2> DEFINE g == invite[c].grant
  <2>1. g \in Nat
    <3>1. g \in Grants \cup {0}
      BY <1>1 DEF TypeOK
    <3> HIDE DEF g
    <3> QED BY <3>1, AmountsAssumption
  <2>2. wallet[u] = 0
    BY <1>7, NewcomerHasNothing DEF RegisterInvited
  <2>3. ~Posted(<<"invite", c>>)
    BY <1>7 DEF RegisterInvited, BooksInv, GrantsOnce
  <2>4. CASE g = 0
    <3>1. entries' = entries /\ wallet' = wallet
      BY <1>1, <1>7, <2>2, <2>4 DEF RegisterInvited, TypeOK
    <3>2. Newcomers'
      BY <1>7, <3>1 DEF BooksInv, Newcomers, RegisterInvited
    <3>3. GrantsOnce'
      BY <1>1, <1>7, <3>1, NoneAssumption
         DEF BooksInv, GrantsOnce, Posted, RegisterInvited, TypeOK
    <3> QED BY <1>1, <3>1, <3>2, <3>3, BooksSame DEF BooksInv
  <2>5. CASE g # 0
    <3>1. /\ entries' = entries \cup {Entry(<<"invite", c>>, u, g)}
          /\ wallet' = [wallet EXCEPT ![u] = wallet[u] + g]
      <4>1. {Entry(<<"invite", c>>, u, n) : n \in {g} \ {0}} = {Entry(<<"invite", c>>, u, g)}
        BY <2>5
      <4>2. wallet[u] + g = g
        BY <2>1, <2>2
      <4> QED BY <1>7, <4>1, <4>2 DEF RegisterInvited
    <3> HIDE DEF g
    <3>2. BooksFinite' /\ Reconciled'
      <4>1. g \in Int /\ TypeOK' /\ u \in Users
        BY <1>1, <1>7, <2>1
      <4> QED BY <2>3, <3>1, <4>1, PostKeeps
    <3>3. accounts' = accounts \cup {u}
      BY <1>7 DEF RegisterInvited
    <3>4. Newcomers'
      BY <3>1, <3>3 DEF BooksInv, Newcomers, Entry
    <3>5. GrantsOnce'
      BY <1>1, <1>7, <3>1, NoneAssumption
         DEF BooksInv, GrantsOnce, Posted, Entry, RegisterInvited, TypeOK
    <3> QED BY <1>1, <3>2, <3>4, <3>5 DEF BooksInv
  <2> QED BY <2>4, <2>5
<1>8. CASE AdminStep
  BY <1>5, <1>6, <1>7, <1>8 DEF AdminStep
<1>9. CASE UNCHANGED ledgerVars
  BY <1>2, <1>9 DEF ledgerVars
<1> QED BY <1>4, <1>8, <1>9 DEF LedgerNext

(* Every balance is explained by the statement: no credit appears or        *)
(* disappears without an entry, whatever is repeated, settled or refused.   *)
THEOREM BalancesReconcile == LedgerSpec => []Reconciled
<1>1. BooksInv => Reconciled
  BY DEF BooksInv
<1> QED BY <1>1, BooksInit, BooksStep, PTL DEF LedgerSpec

-----------------------------------------------------------------------------
(* The refinement.  The holds of Wallet are the pending operations.         *)
LEMMA HoldsArePending ==
  ASSUME NEW u
  PROVE  W!Held(u) = Open(u)
BY DEF W!Held, Open, Phase, Final, Pending

LEMMA HeldIsReserved ==
  ASSUME NEW u
  PROVE  W!Total(W!Held(u), budget) = Reserved(u)
<1>1. W!Units(W!Held(u), budget) = Units(Open(u), budget)
  BY HoldsArePending DEF W!Units, Units
<1>2. W!Total(W!Held(u), budget) = Total(Open(u), budget)
  BY <1>1 DEF W!Total, Total, W!Cardinality, Cardinality
<1> QED BY <1>2 DEF Reserved, Open

LEMMA WalletInit == LedgerInit => W!Init
<1> SUFFICES ASSUME LedgerInit PROVE W!Init
  OBVIOUS
<1>1. wallet \in [Users -> Nat]
  BY LedgerInvInit DEF LedgerInv, TypeOK
<1>2. \A o \in Operations : Phase(o) = "free"
  BY DEF LedgerInit, Phase, Pending, Final
<1> QED BY <1>1, <1>2 DEF W!Init, LedgerInit

(* A step that moves no operation to another phase and no money is a stutter*)
(* of Wallet.                                                               *)
LEMMA WalletStutter ==
  ASSUME UNCHANGED <<wallet, budget, charged>>,
         \A o \in Operations : Phase(o)' = Phase(o)
  PROVE  UNCHANGED W!vars
BY DEF W!vars

LEMMA WalletReserve ==
  ASSUME LedgerInv, NEW o \in Operations, NEW b \in Budgets, Reserve(o, b)
  PROVE  W!Hold(o)
<1> USE DEF LedgerInv
<1>1. Phase(o) = "free"
  BY DEF Reserve, Phase, Pending, Final
<1>2. budget' = [budget EXCEPT ![o] = b] /\ budget'[o] = b /\ b \in Nat \ {0}
  BY AmountsAssumption DEF Reserve, TypeOK
<1>3. Owner[o] \in Users
  BY OperationsAssumption
<1>4. b <= W!Available(Owner[o])
  <2>1. wallet[Owner[o]] \in Nat /\ Reserved(Owner[o]) \in Nat
    BY <1>3, ReservedType DEF TypeOK
  <2>2. b <= wallet[Owner[o]] - Reserved(Owner[o])
    BY <1>2, <2>1 DEF Reserve
  <2> QED BY <2>2, HeldIsReserved DEF W!Available
<1>5. Phase(o)' = "held"
  BY DEF Reserve, Phase, Pending, TypeOK
<1>6. \A p \in Operations \ {o} : Phase(p)' = Phase(p)
  BY DEF Reserve, Phase, Pending, TypeOK
<1>7. [p \in Operations |-> Phase(p)']
        = [[p \in Operations |-> Phase(p)] EXCEPT ![o] = "held"]
  BY <1>5, <1>6
<1> QED BY <1>1, <1>2, <1>4, <1>7 DEF W!Hold, Reserve

LEMMA WalletSettle ==
  ASSUME LedgerInv, NEW o \in Operations, NEW outcome \in Final, Settle(o, outcome),
         SettleFirst(o, outcome)
  PROVE  W!Close(o)
<1> USE DEF LedgerInv
<1>1. Phase(o) = "held"
  BY DEF SettleFirst, Phase
<1>2. charged' = [charged EXCEPT ![o] = Charge(o, outcome)]
      /\ charged'[o] = Charge(o, outcome) /\ Charge(o, outcome) \in 0..budget[o]
  BY ChargeCovered DEF SettleFirst, TypeOK
<1>3. wallet' = [wallet EXCEPT ![Owner[o]] = @ - charged'[o]]
  BY <1>2 DEF SettleFirst
<1>4. Phase(o)' = "closed"
  BY DEF SettleFirst, Phase, Pending, TypeOK, Final
<1>5. \A p \in Operations \ {o} : Phase(p)' = Phase(p)
  BY DEF SettleFirst, Phase, Pending, TypeOK
<1>6. [p \in Operations |-> Phase(p)']
        = [[p \in Operations |-> Phase(p)] EXCEPT ![o] = "closed"]
  BY <1>4, <1>5
<1> QED BY <1>1, <1>2, <1>3, <1>6 DEF W!Close, Settle

(* Administrators add credits, or take what is available.                   *)
LEMMA WalletChange ==
  ASSUME LedgerInv, LedgerInv', NEW u \in Users, NEW n,
         wallet' = [wallet EXCEPT ![u] = n],
         UNCHANGED <<status, budget, charged>>
  PROVE  W!Change(u)
<1> USE DEF LedgerInv
<1>1. wallet'[u] \in Nat
  BY DEF TypeOK
<1>2. Reserved(u)' = Reserved(u)
  BY ReservedSame DEF Pending
<1>3. wallet'[u] >= Reserved(u)
  BY <1>1, <1>2, ReservedType DEF Solvent
<1>4. wallet' = [wallet EXCEPT ![u] = wallet'[u]]
  BY DEF TypeOK
<1>5. [p \in Operations |-> Phase(p)'] = [p \in Operations |-> Phase(p)]
  BY DEF Phase, Pending
<1>6. wallet'[u] >= W!Total(W!Held(u), budget)
  BY <1>3, HeldIsReserved
<1> QED BY <1>1, <1>4, <1>5, <1>6 DEF W!Change

LEMMA WalletStep ==
  ASSUME LedgerInv, [LedgerNext]_ledgerVars
  PROVE  [W!Next]_W!vars
<1> USE DEF LedgerInv
<1>1. CASE UNCHANGED ledgerVars
  BY <1>1, WalletStutter DEF ledgerVars, Phase, Pending
<1>2. ASSUME NEW o \in Operations, OperationStep(o) PROVE [W!Next]_W!vars
  <2>1. ASSUME NEW b \in Budgets, Reserve(o, b) PROVE W!Next
    BY <2>1, WalletReserve DEF W!Next
  <2>2. CASE Started(o)
    <3>1. \A p \in Operations : Phase(p)' = Phase(p)
      BY <2>2 DEF Started, Phase, Pending, TypeOK, Final
    <3> QED BY <2>2, <3>1, WalletStutter DEF Started
  <2>3. ASSUME NEW c \in Calls, NEW k \in Costs, RecordCall(o, c, k) PROVE UNCHANGED W!vars
    <3>1. \A p \in Operations : Phase(p)' = Phase(p)
      BY <2>3 DEF RecordCall, Phase, Pending
    <3> QED BY <2>3, <3>1, WalletStutter DEF RecordCall
  <2>4. ASSUME NEW outcome \in Final, SetIntent(o, outcome),
               UNCHANGED <<wallet, budget, charged>>
        PROVE UNCHANGED W!vars
    <3>1. \A p \in Operations : Phase(p)' = Phase(p)
      BY <2>4 DEF SetIntent, Phase, Pending, TypeOK, Final
    <3> QED BY <2>4, <3>1, WalletStutter
  <2>5. ASSUME NEW outcome \in Final, Settle(o, outcome) PROVE [W!Next]_W!vars
    <3>1. CASE SettleFirst(o, outcome)
      BY <2>5, <3>1, WalletSettle DEF W!Next
    <3>2. CASE SettleAgain(o)
      <4>1. \A p \in Operations : Phase(p)' = Phase(p)
        BY <3>2 DEF SettleAgain, Phase, Pending
      <4> QED BY <2>5, <3>2, <4>1, WalletStutter DEF Settle, SettleAgain
    <3> QED BY <2>5, <3>1, <3>2 DEF Settle
  <2> QED BY <1>2, <2>1, <2>2, <2>3, <2>4, <2>5 DEF OperationStep, SaveResult, Finalize, Final
<1>3. CASE AdminStep
  <2>1. ASSUME NEW r \in Requests, NEW u \in Users, NEW n \in Changes, Adjust(r, u, n)
        PROVE W!Next
    BY <2>1, AdjustInv, WalletChange DEF Adjust, W!Next
  <2>2. ASSUME NEW r \in Requests, NEW codes \in SUBSET Codes, NEW g \in Grants,
               CreateInvites(r, codes, g)
        PROVE UNCHANGED W!vars
    BY <2>2, WalletStutter DEF CreateInvites, Phase, Pending
  <2>3. ASSUME NEW u \in Users, NEW c \in Codes, RegisterInvited(u, c) PROVE W!Next
    BY <2>3, RegisterInvitedInv, WalletChange DEF RegisterInvited, W!Next
  <2> QED BY <1>3, <2>1, <2>2, <2>3 DEF AdminStep
<1> QED BY <1>1, <1>2, <1>3 DEF LedgerNext

(* The ledger implements the wallet it promises: every operation holds an   *)
(* available amount, is closed at most once, and costs at most what it held.*)
THEOREM LedgerImplementsWallet == LedgerSpec => ImplementsWallet
<1>1. LedgerInv /\ [LedgerNext]_ledgerVars => [W!Next]_W!vars
  BY WalletStep
<1> QED BY <1>1, WalletInit, LedgerInvInit, LedgerInvStep, PTL
        DEF LedgerSpec, ImplementsWallet, W!Spec

=============================================================================
