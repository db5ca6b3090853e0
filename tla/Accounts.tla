-------------------------------- MODULE Accounts -------------------------------
(***************************************************************************)
(* The accounts of the counties: an identity in the Cognito pool and a row *)
(* of the users table that binds it (by its sub) to a county and a role.   *)
(* No transaction spans the two.  Three operations create accounts: an     *)
(* administrator's invitation (api/users.py), and the operator's           *)
(* create-user and seed-local (cli.py).                                    *)
(*                                                                         *)
(* An operation creates at most one identity, whose sub is named after it. *)
(***************************************************************************)
EXTENDS Naturals

CONSTANTS
    Emails, Operations, NoSub,
    Asked,      \* Asked[o]: what operation o is (its kind), and for whom (its email)
    MaxCuts,    \* bound: operations cut short, by a crash or an error other than a conflict
    MaxResets   \* bound: local databases emptied under a pool that is kept

Kinds == {"invite", "create", "seed"}

ASSUME AccountsAssumption ==
    /\ NoSub \notin Operations
    /\ Asked \in [Operations -> [kind : Kinds, email : Emails]]
    /\ MaxCuts \in Nat
    /\ MaxResets \in Nat

VARIABLES
    pool,       \* pool[e]: the sub of the identity of e
    users,      \* users[e]: users.cognito_sub of the row of e; emails and subs are unique
    op,         \* op[o]: how far operation o is, and the sub it binds
    takenOver,  \* the identities a seed bound while their operation was under way (history)
    cuts, resets

accounts == <<pool, users, op, takenOver, cuts, resets>>

AccountsInit ==
    /\ pool = [e \in Emails |-> NoSub]
    /\ users = [e \in Emails |-> NoSub]
    /\ op = [o \in Operations |-> [pc |-> "idle", sub |-> NoSub]]
    /\ takenOver = {}
    /\ cuts = 0
    /\ resets = 0

Goes(o, pc) == op' = [op EXCEPT ![o].pc = pc, ![o].sub = IF pc = "done" THEN NoSub ELSE @]

\* An invitation for a known address is answered 409, a seed skips it; create-user asks
\* only whether the county exists.
Begin(o) ==
    /\ op[o].pc = "idle"
    /\ Goes(o, IF Asked[o].kind # "create" /\ users[Asked[o].email] # NoSub THEN "done" ELSE "checked")
    /\ UNCHANGED <<pool, users, takenOver, cuts, resets>>

\* Faulty variant: an invitation takes over the identity it finds.
RebindsInvited(kind) == kind \in {"seed", "invite"}

\* On UsernameExistsException the seed asks for the existing sub, the others refuse.
Rebinds(kind) == kind = "seed"

UnderWay(o) == op[o].pc \notin {"idle", "done"}

AfterIdentity(kind) == IF kind = "invite" THEN "saving" ELSE "password"

CreateIdentity(o) ==
    LET e == Asked[o].email
        Found == pool[e]
    IN  /\ op[o].pc = "checked"
        /\ \/ /\ Found = NoSub
              /\ pool' = [pool EXCEPT ![e] = o]
              /\ op' = [op EXCEPT ![o].pc = AfterIdentity(Asked[o].kind), ![o].sub = o]
              /\ UNCHANGED takenOver
           \/ /\ Found # NoSub /\ Rebinds(Asked[o].kind)
              /\ op' = [op EXCEPT ![o].pc = "password", ![o].sub = Found]
              /\ takenOver' = takenOver \cup {p \in {Found} : Asked[o].kind = "seed" /\ UnderWay(p)}
              /\ UNCHANGED pool
           \/ /\ Found # NoSub /\ ~Rebinds(Asked[o].kind)
              /\ Goes(o, "done")
              /\ UNCHANGED <<pool, takenOver>>
        /\ UNCHANGED <<users, cuts, resets>>

\* admin_set_user_password(), or nothing when create-user gives no permanent one.
SetPassword(o) ==
    /\ op[o].pc = "password"
    /\ pool[Asked[o].email] # NoSub
    /\ Goes(o, "saving")
    /\ UNCHANGED <<pool, users, takenOver, cuts, resets>>

\* The row is inserted, or meets a unique key.  The seed lets that error out.
Save(o) ==
    LET e == Asked[o].email
        Free == users[e] = NoSub /\ \A d \in Emails : users[d] # op[o].sub
    IN  /\ op[o].pc = "saving"
        /\ users' = IF Free THEN [users EXCEPT ![e] = op[o].sub] ELSE users
        /\ Goes(o, IF Free \/ Asked[o].kind = "seed" THEN "done" ELSE "undo")
        /\ UNCHANGED <<pool, takenOver, cuts, resets>>

\* The identity is deleted by its address, whoever it is bound to by now.
Undo(o) ==
    /\ op[o].pc = "undo"
    /\ pool' = [pool EXCEPT ![Asked[o].email] = NoSub]
    /\ Goes(o, "done")
    /\ UNCHANGED <<users, takenOver, cuts, resets>>

\* The process dies, or Cognito or the database fails otherwise: nothing is undone.
Cut(o) ==
    /\ UnderWay(o)
    /\ cuts < MaxCuts
    /\ cuts' = cuts + 1
    /\ Goes(o, "done")
    /\ UNCHANGED <<pool, users, takenOver, resets>>

\* The local database is created anew while the emulator keeps its users.
ResetDatabase ==
    /\ resets < MaxResets
    /\ resets' = resets + 1
    /\ \A o \in Operations : ~UnderWay(o)
    /\ users' = [e \in Emails |-> NoSub]
    /\ UNCHANGED <<pool, op, takenOver, cuts>>

AccountsNext ==
    \/ \E o \in Operations :
          Begin(o) \/ CreateIdentity(o) \/ SetPassword(o) \/ Save(o) \/ Undo(o) \/ Cut(o)
    \/ ResetDatabase

--------------------------------------------------------------------------------
(* Properties.                                                             *)

\* Every row is bound to the identity of its address, except a row bound to an identity
\* that a seed took over from an operation under way: that operation may yet undo it
\* (users.py:79-88, cli.py:139-150, 195-201).
RowsAreBound ==
    \A e \in Emails : users[e] # NoSub => users[e] = pool[e] \/ users[e] \in takenOver

\* The compensation deletes an identity by its address (users.py:84, cli.py:200): whatever
\* was created, taken over or undone meanwhile, the one it deletes is the one its own
\* operation created.
UndoTakesItsOwn ==
    [][\A e \in Emails : pool[e] # NoSub /\ pool'[e] # pool[e] =>
          \E o \in Operations : pool[e] = o /\ op[o].pc = "undo" /\ pool'[e] = NoSub]_accounts
================================================================================
