------------------------------ MODULE SignInProofs -----------------------------
(***************************************************************************)
(* What holds of accounts and sessions for any number of addresses,        *)
(* operations, resets, concurrent calls and signing keys.                  *)
(***************************************************************************)
EXTENDS SignIn, TLAPS

Steps == {"idle", "checked", "password", "saving", "undo", "done"}

Subs == Operations \cup {NoSub}

AccountsType ==
    /\ pool \in [Emails -> Subs]
    /\ users \in [Emails -> Subs]
    /\ op \in [Operations -> [pc : Steps, sub : Subs]]
    /\ takenOver \subseteq Operations

\* What an operation holds, as far as it is.  An identity exists only once its operation
\* has created it.
OperationSteps ==
    \A o \in Operations :
        /\ op[o].pc \in {"idle", "checked", "done"} <=> op[o].sub = NoSub
        /\ op[o].sub # NoSub /\ Asked[o].kind # "seed" => op[o].sub = o
        /\ op[o].pc = "undo" => Asked[o].kind # "seed"
        /\ op[o].pc \in {"idle", "checked"} =>
              /\ \A e \in Emails : pool[e] # o /\ users[e] # o
              /\ \A p \in Operations : op[p].sub # o

\* An identity is in the pool as long as the operation that created it holds it.  While that
\* operation is under way no other holds its identity and no row has it, unless a seed took
\* it over.
HeldByOne ==
    \A o \in Operations :
        /\ op[o].sub # NoSub /\ (Asked[o].kind = "seed" => op[o].sub \notin takenOver)
              => pool[Asked[o].email] = op[o].sub
        /\ UnderWay(o) /\ o \notin takenOver =>
              /\ \A p \in Operations : op[p].sub = o => p = o
              /\ \A e \in Emails : users[e] # o

AInv ==
    /\ AccountsType
    /\ OperationSteps
    /\ HeldByOne
    /\ RowsAreBound

LEMMA AskedType ==
  ASSUME NEW o \in Operations
  PROVE  Asked[o].kind \in Kinds /\ Asked[o].email \in Emails
  BY AccountsAssumption

LEMMA GoesType ==
  ASSUME NEW o \in Operations, NEW pc \in Steps, AccountsType, Goes(o, pc)
  PROVE  op' \in [Operations -> [pc : Steps, sub : Subs]]
  <1>1. op[o] \in [pc : Steps, sub : Subs] /\ NoSub \in Subs
    BY DEF AccountsType, Subs
  <1>2. CASE pc = "done"
    BY <1>1, <1>2 DEF Goes, AccountsType
  <1>3. CASE pc # "done"
    BY <1>1, <1>3 DEF Goes, AccountsType
  <1> QED BY <1>2, <1>3

LEMMA AccountsInvInit == AccountsInit => AInv
  <1> SUFFICES ASSUME AccountsInit PROVE AInv OBVIOUS
  <1> USE AccountsAssumption DEF AccountsInit
  <1>1. AccountsType
    BY DEF AccountsType, Steps, Subs
  <1>2. OperationSteps /\ HeldByOne /\ RowsAreBound
    BY DEF OperationSteps, HeldByOne, RowsAreBound, UnderWay
  <1> QED BY <1>1, <1>2 DEF AInv

LEMMA AccountsInvNext == AInv /\ AccountsNext => AInv'
  <1> SUFFICES ASSUME AInv, AccountsNext PROVE AInv' OBVIOUS
  <1>0. NoSub \notin Operations
    BY AccountsAssumption
  <1> USE <1>0 DEF AInv
  <1>1. ASSUME NEW o \in Operations, Begin(o) PROVE AInv'
    <2>0. Asked[o].kind \in Kinds /\ Asked[o].email \in Emails
      BY AskedType
    <2>1. AccountsType'
      BY <1>1, GoesType DEF Begin, AccountsType, Steps
    <2>2. OperationSteps'
      BY <1>1, <2>0 DEF Begin, Goes, AccountsType, Steps, OperationSteps, Kinds
    <2>3. HeldByOne'
      BY <1>1, <2>0 DEF Begin, Goes, AccountsType, Steps, OperationSteps, HeldByOne, RowsAreBound, UnderWay, Kinds
    <2>4. RowsAreBound'
      BY <1>1, <2>0 DEF Begin, Goes, AccountsType, Steps, OperationSteps, HeldByOne, RowsAreBound, UnderWay, Kinds
    <2> QED BY <2>1, <2>2, <2>3, <2>4
  <1>2. ASSUME NEW o \in Operations, CreateIdentity(o) PROVE AInv'
    <2>0. Asked[o].kind \in Kinds /\ Asked[o].email \in Emails
      BY AskedType
    <2>1. AccountsType'
      <3>1. CASE pool[Asked[o].email] = NoSub
        BY <1>2, <2>0, <3>1 DEF CreateIdentity, AfterIdentity, AccountsType, Steps, Subs
      <3>2. CASE pool[Asked[o].email] # NoSub /\ Rebinds(Asked[o].kind)
        <4>1. pool[Asked[o].email] \in Subs
          BY <2>0 DEF AccountsType
        <4>2. op' = [op EXCEPT ![o].pc = "password", ![o].sub = pool[Asked[o].email]]
          BY <1>2, <3>2 DEF CreateIdentity
        <4>3. op' \in [Operations -> [pc : Steps, sub : Subs]]
          BY <4>1, <4>2 DEF AccountsType, Steps
        <4>4. /\ takenOver' \subseteq takenOver \cup {pool[Asked[o].email]}
              /\ UNCHANGED <<pool, users>>
          BY <1>2, <3>2 DEF CreateIdentity
        <4>5. pool[Asked[o].email] \in Operations
          BY <3>2, <4>1 DEF Subs
        <4> QED BY <4>3, <4>4, <4>5 DEF AccountsType
      <3>3. CASE pool[Asked[o].email] # NoSub /\ ~Rebinds(Asked[o].kind)
        BY <1>2, <3>3, GoesType DEF CreateIdentity, AccountsType, Steps
      <3> QED BY <3>1, <3>2, <3>3
    <2>2. OperationSteps'
      BY <1>2, <2>0 DEF CreateIdentity, Goes, Rebinds, AfterIdentity, AccountsType, Steps, OperationSteps, Kinds
    <2>3. HeldByOne'
      BY <1>2, <2>0 DEF CreateIdentity, Goes, Rebinds, AfterIdentity, AccountsType, Steps, OperationSteps, HeldByOne, RowsAreBound, UnderWay, Kinds
    <2>4. RowsAreBound'
      BY <1>2, <2>0 DEF CreateIdentity, Goes, Rebinds, AfterIdentity, AccountsType, Steps, OperationSteps, HeldByOne, RowsAreBound, UnderWay, Kinds
    <2> QED BY <2>1, <2>2, <2>3, <2>4
  <1>3. ASSUME NEW o \in Operations, SetPassword(o) PROVE AInv'
    <2>0. Asked[o].kind \in Kinds /\ Asked[o].email \in Emails
      BY AskedType
    <2>1. AccountsType'
      BY <1>3, <2>0 DEF SetPassword, Goes, AccountsType, Steps, Subs, Kinds
    <2>2. OperationSteps'
      BY <1>3, <2>0 DEF SetPassword, Goes, AccountsType, Steps, OperationSteps, Kinds
    <2>3. HeldByOne'
      BY <1>3, <2>0 DEF SetPassword, Goes, AccountsType, Steps, OperationSteps, HeldByOne, RowsAreBound, UnderWay, Kinds
    <2>4. RowsAreBound'
      BY <1>3, <2>0 DEF SetPassword, Goes, AccountsType, Steps, OperationSteps, HeldByOne, RowsAreBound, UnderWay, Kinds
    <2> QED BY <2>1, <2>2, <2>3, <2>4
  <1>4. ASSUME NEW o \in Operations, Save(o) PROVE AInv'
    <2>0. Asked[o].kind \in Kinds /\ Asked[o].email \in Emails
      BY AskedType
    <2>1. AccountsType'
      <3>1. op' \in [Operations -> [pc : Steps, sub : Subs]]
        BY <1>4, GoesType DEF Save, Steps
      <3>2. op[o].sub \in Subs
        BY DEF AccountsType
      <3> QED BY <1>4, <2>0, <3>1, <3>2 DEF Save, AccountsType
    <2>2. OperationSteps'
      BY <1>4, <2>0 DEF Save, Goes, AccountsType, Steps, OperationSteps, Kinds
    <2>3. HeldByOne'
      BY <1>4, <2>0 DEF Save, Goes, AccountsType, Steps, OperationSteps, HeldByOne, RowsAreBound, UnderWay, Kinds
    <2>4. RowsAreBound'
      BY <1>4, <2>0 DEF Save, Goes, AccountsType, Steps, OperationSteps, HeldByOne, RowsAreBound, UnderWay, Kinds
    <2> QED BY <2>1, <2>2, <2>3, <2>4
  <1>5. ASSUME NEW o \in Operations, Undo(o) PROVE AInv'
    <2>0. Asked[o].kind \in Kinds /\ Asked[o].email \in Emails
      BY AskedType
    <2>1. AccountsType'
      BY <1>5, <2>0 DEF Undo, Goes, AccountsType, Steps, Subs, Kinds
    <2>2. OperationSteps'
      BY <1>5, <2>0 DEF Undo, Goes, AccountsType, Steps, OperationSteps, Kinds
    <2>3. HeldByOne'
      BY <1>5, <2>0 DEF Undo, Goes, AccountsType, Steps, OperationSteps, HeldByOne, RowsAreBound, UnderWay, Kinds
    <2>4. RowsAreBound'
      BY <1>5, <2>0 DEF Undo, Goes, AccountsType, Steps, OperationSteps, HeldByOne, RowsAreBound, UnderWay, Kinds
    <2> QED BY <2>1, <2>2, <2>3, <2>4
  <1>6. ASSUME NEW o \in Operations, Cut(o) PROVE AInv'
    <2>0. Asked[o].kind \in Kinds /\ Asked[o].email \in Emails
      BY AskedType
    <2>1. AccountsType'
      BY <1>6, <2>0 DEF Cut, Goes, UnderWay, AccountsType, Steps, Subs, Kinds
    <2>2. OperationSteps'
      BY <1>6, <2>0 DEF Cut, Goes, UnderWay, AccountsType, Steps, OperationSteps, Kinds
    <2>3. HeldByOne'
      BY <1>6, <2>0 DEF Cut, Goes, UnderWay, AccountsType, Steps, OperationSteps, HeldByOne, RowsAreBound, UnderWay, Kinds
    <2>4. RowsAreBound'
      BY <1>6, <2>0 DEF Cut, Goes, UnderWay, AccountsType, Steps, OperationSteps, HeldByOne, RowsAreBound, UnderWay, Kinds
    <2> QED BY <2>1, <2>2, <2>3, <2>4
  <1>7. CASE ResetDatabase
    <2>1. AccountsType'
      BY <1>7 DEF ResetDatabase, AccountsType, Steps, Subs, Kinds
    <2>2. OperationSteps'
      BY <1>7 DEF ResetDatabase, AccountsType, Steps, OperationSteps, Kinds
    <2>3. HeldByOne'
      BY <1>7 DEF ResetDatabase, AccountsType, Steps, OperationSteps, HeldByOne, RowsAreBound, UnderWay, Kinds
    <2>4. RowsAreBound'
      BY <1>7 DEF ResetDatabase, AccountsType, Steps, OperationSteps, HeldByOne, RowsAreBound, UnderWay, Kinds
    <2> QED BY <2>1, <2>2, <2>3, <2>4
  <1> QED BY <1>1, <1>2, <1>3, <1>4, <1>5, <1>6, <1>7 DEF AccountsNext

--------------------------------------------------------------------------------
(* The session of the tab.                                                 *)

Tokens == [owner : Subs, key : Nat, age : {Good, Expiring, Expired}]

TabType ==
    /\ ui \in Emails \cup {"closed", "loading", "anonymous"}
    /\ tokens \in Tokens
    /\ call \in [Calls -> [pc : {"idle", "refreshing", "sent", "answered"}, me : BOOLEAN,
                            token : Tokens, answer : {"none", "200", "401", "error"}]]

CallSteps ==
    \A c \in Calls :
        /\ call[c].pc = "idle" => ~call[c].me
        /\ call[c].pc # "answered" => call[c].answer = "none"

\* The owner of a token is an identity, unless it is no token.
Owned == /\ tokens # Null => tokens.owner \in Operations
         /\ \A c \in Calls : call[c].token # Null => call[c].token.owner \in Operations
         /\ \A c \in Calls : call[c].pc = "refreshing" => call[c].token # Null

TInv ==
    /\ TabType
    /\ CallSteps
    /\ Owned

LEMMA NullType == Null \in Tokens /\ Idle \in [pc : {"idle"}, me : {FALSE}, token : Tokens, answer : {"none"}]
  BY DEF Null, Idle, Tokens, Subs, Good

LEMMA OpenedType ==
  ASSUME NEW me \in BOOLEAN, NEW t \in Tokens
  PROVE  /\ Opened(me, t) \in [pc : {"refreshing", "sent"}, me : BOOLEAN, token : Tokens,
                                answer : {"none"}]
         /\ Opened(me, t).me = me /\ Opened(me, t).token = t
         /\ Opened(me, t).pc = "refreshing" => t # Null
  BY DEF Opened

LEMMA IssuedType ==
  ASSUME NEW o \in Operations, signing \in Nat
  PROVE  Issued(o) \in Tokens /\ Issued(o).owner = o /\ Issued(o) # Null /\ Issued(o).age = Good
  <1>1. o # NoSub
    BY AccountsAssumption
  <1> QED BY <1>1 DEF Issued, Tokens, Subs, Null

LEMMA OlderType ==
  ASSUME NEW t \in Tokens
  PROVE  /\ Older(t) \in Tokens /\ Older(t).owner = t.owner
         /\ Older(t) = Null <=> t = Null
  <1>1. CASE t = Null \/ t.age = Expired
    BY <1>1 DEF Older
  <1>2. CASE t # Null /\ t.age # Expired
    BY <1>2 DEF Older, Tokens, Null, Good, Expiring, Expired
  <1> QED BY <1>1, <1>2

CallType == [pc : {"idle", "refreshing", "sent", "answered"}, me : BOOLEAN, token : Tokens,
             answer : {"none", "200", "401", "error"}]

LEMMA TabInvNext ==
  ASSUME AInv, TInv, signing \in Nat, SignInNext
  PROVE  TInv'
  <1>0. /\ NoSub \notin Operations
        /\ pool \in [Emails -> Subs] /\ users \in [Emails -> Subs]
    BY AccountsAssumption, SignInAssumption DEF AInv, AccountsType
  <1>a. /\ Idle \in [pc : {"idle"}, me : {FALSE}, token : Tokens, answer : {"none"}]
        /\ Idle.token = Null /\ Null \in Tokens
    BY NullType DEF Idle
  <1> USE <1>0 DEF TInv, accounts, tab, keys
  <1>1. CASE UNCHANGED <<ui, tokens, call>>
    BY <1>1 DEF TabType, CallSteps, Owned
  <1>2. ASSUME NEW e \in Emails, SignInAs(e) PROVE TInv'
    <2>0. /\ Issued(pool[e]) \in Tokens /\ Issued(pool[e]).owner = pool[e]
          /\ pool[e] \in Operations
          /\ Issued(pool[e]) # Null
          /\ Opened(TRUE, Issued(pool[e])) = [pc |-> "sent", me |-> TRUE,
                                              token |-> Issued(pool[e]), answer |-> "none"]
      BY <1>2, IssuedType DEF SignInAs, Subs, Opened
    <2>1. PICK c \in Calls :
             /\ call[c].pc = "idle"
             /\ call' = [call EXCEPT ![c] = Opened(TRUE, Issued(pool[e]))]
      BY <1>2 DEF SignInAs
    <2>2. call' = [call EXCEPT ![c] = [pc |-> "sent", me |-> TRUE, token |-> Issued(pool[e]),
                                       answer |-> "none"]]
      BY <2>0, <2>1
    <2>3. tokens' = Issued(pool[e]) /\ UNCHANGED ui
      BY <1>2 DEF SignInAs
    <2>4. TabType'
      BY <2>0, <2>2, <2>3 DEF TabType
    <2>5. CallSteps' /\ Owned'
      BY <2>0, <2>2, <2>3 DEF TabType, CallSteps, Owned
    <2> QED BY <2>4, <2>5
  <1>3. CASE SignOut
    BY <1>3, <1>a DEF SignOut, TabType, CallSteps, Owned
  <1>4. CASE Reload
    <2>0. /\ Opened(TRUE, tokens) \in [pc : {"refreshing", "sent"}, me : BOOLEAN, token : Tokens,
                                       answer : {"none"}]
          /\ Opened(TRUE, tokens).me /\ Opened(TRUE, tokens).token = tokens
          /\ Opened(TRUE, tokens).pc = "refreshing" => tokens # Null
      BY OpenedType DEF TabType
    <2>1. TabType'
      <3>1. PICK c \in Calls :
               call' = [d \in Calls |-> IF d = c /\ tokens # Null THEN Opened(TRUE, tokens) ELSE Idle]
        BY <1>4 DEF Reload
      <3>2. ui' \in {"anonymous", "loading"} /\ UNCHANGED tokens
        BY <1>4 DEF Reload
      <3>3. call' \in [Calls -> CallType]
        BY <1>a, <2>0, <3>1 DEF CallType
      <3> QED BY <3>2, <3>3 DEF TabType, CallType
    <2>2. CallSteps'
      BY <1>4, <1>a, <2>0 DEF Reload, TabType, CallSteps
    <2>3. Owned'
      BY <1>4, <1>a, <2>0 DEF Reload, TabType, Owned
    <2> QED BY <2>1, <2>2, <2>3
  <1>5. ASSUME NEW c \in Calls, PageCall(c) PROVE TInv'
    <2>0. /\ Opened(FALSE, tokens) \in [pc : {"refreshing", "sent"}, me : BOOLEAN, token : Tokens,
                                        answer : {"none"}]
          /\ ~Opened(FALSE, tokens).me /\ Opened(FALSE, tokens).token = tokens
          /\ Opened(FALSE, tokens).pc = "refreshing" => tokens # Null
      BY OpenedType DEF TabType
    <2>1. TabType'
      BY <1>5, <2>0 DEF PageCall, TabType
    <2>2. CallSteps'
      BY <1>5, <2>0 DEF PageCall, TabType, CallSteps
    <2>3. Owned'
      BY <1>5, <2>0 DEF PageCall, TabType, Owned
    <2> QED BY <2>1, <2>2, <2>3
  <1>6. ASSUME NEW c \in Calls, RefreshSucceeds(c) PROVE TInv'
    <2>0. /\ call[c].token.owner \in Operations
          /\ Issued(call[c].token.owner) \in Tokens /\ Issued(call[c].token.owner) # Null
          /\ Issued(call[c].token.owner).owner = call[c].token.owner
      BY <1>6, IssuedType DEF RefreshSucceeds, Owned
    <2>1. TabType'
      BY <1>6, <2>0 DEF RefreshSucceeds, TabType
    <2>2. CallSteps'
      BY <1>6, <2>0 DEF RefreshSucceeds, TabType, CallSteps
    <2>3. Owned'
      BY <1>6, <2>0 DEF RefreshSucceeds, TabType, Owned
    <2> QED BY <2>1, <2>2, <2>3
  <1>7. ASSUME NEW c \in Calls, SignsOut(c) PROVE TInv'
    <2>1. TabType'
      BY <1>7, <1>a DEF SignsOut, DropTokens, Ends, TabType
    <2>2. CallSteps'
      BY <1>7, <1>a DEF SignsOut, DropTokens, Ends, TabType, CallSteps
    <2>3. Owned'
      BY <1>7, <1>a DEF SignsOut, DropTokens, Ends, TabType, Owned
    <2> QED BY <2>1, <2>2, <2>3
  <1>8. ASSUME NEW c \in Calls, RefreshFails(c), ~SignsOut(c) PROVE TInv'
    <2>1. CASE tokens # Null
      <3>1. /\ call' = [call EXCEPT ![c].pc = "sent", ![c].token = tokens]
            /\ UNCHANGED <<ui, tokens>> /\ call[c].pc = "refreshing"
        BY <1>8, <2>1 DEF RefreshFails
      <3>2. TabType'
        BY <3>1 DEF TabType
      <3>3. CallSteps' /\ Owned'
        BY <3>1 DEF TabType, CallSteps, Owned
      <3> QED BY <3>2, <3>3
    <2>2. CASE tokens = Null
      BY <1>8, <1>a, <2>2 DEF RefreshFails, Ends, TabType, CallSteps, Owned
    <2> QED BY <2>1, <2>2
  <1>9. ASSUME NEW c \in Calls, Deliver(c), ~SignsOut(c) PROVE TInv'
    <2>1. Ends(c) /\ UNCHANGED tokens /\ ui' \in Emails \cup {ui}
      BY <1>9 DEF Deliver, ShowsUser
    <2> QED BY <1>a, <2>1 DEF Ends, TabType, CallSteps, Owned
  <1>10. ASSUME NEW c \in Calls, Verify(c) PROVE TInv'
    <2>1. PICK a \in {"200", "401", "error"} :
             call' = [call EXCEPT ![c].pc = "answered", ![c].answer = a]
      BY <1>10 DEF Verify, Answered, Answers
    <2>2. UNCHANGED <<ui, tokens>> /\ call[c].pc = "sent"
      BY <1>10 DEF Verify
    <2> QED BY <2>1, <2>2 DEF TabType, CallSteps, Owned
  <1>11. CASE TokensAge
    <2>1. /\ tokens' = Older(tokens)
          /\ call' = [c \in Calls |-> [call[c] EXCEPT !.token = Older(@)]]
          /\ UNCHANGED ui
      BY <1>11 DEF TokensAge
    <2>2. /\ tokens' \in Tokens /\ tokens'.owner = tokens.owner /\ (tokens' = Null <=> tokens = Null)
      BY <2>1, OlderType DEF TabType
    <2>3. \A c \in Calls :
             /\ call'[c].pc = call[c].pc /\ call'[c].me = call[c].me
             /\ call'[c].answer = call[c].answer
             /\ call'[c].token \in Tokens /\ call'[c].token.owner = call[c].token.owner
             /\ call'[c].token = Null <=> call[c].token = Null
      BY <2>1, OlderType DEF TabType
    <2>4. TabType'
      BY <2>1, <2>2, OlderType DEF TabType
    <2>5. CallSteps' /\ Owned'
      BY <2>1, <2>2, <2>3 DEF CallSteps, Owned
    <2> QED BY <2>4, <2>5
  <1> QED BY <1>1, <1>2, <1>3, <1>4, <1>5, <1>6, <1>7, <1>8, <1>9, <1>10, <1>11
          DEF SignInNext, Submit, SignInRefused, Rotate, Retire, HourPasses

\* No step but the end of a late call leaves the tab with another than the user it shows.
LEMMA StepKeepsOneUser ==
  ASSUME TInv, signing \in Nat, AInv, OneUser, SignInNext
  PROVE  OneUser' \/ LateEnds
  <1>0. /\ Emails \cap {"closed", "loading", "anonymous"} = {}
        /\ pool \in [Emails -> Subs] /\ NoSub \notin Operations
        /\ call \in [Calls -> CallType] /\ tokens \in Tokens
        /\ \A c \in Calls : call[c].pc = "idle" => ~call[c].me
    BY AccountsAssumption, SignInAssumption
       DEF AInv, AccountsType, TInv, TabType, CallType, CallSteps
  <1>a. Idle.pc = "idle" /\ ~Idle.me /\ Idle.token = Null
    BY DEF Idle
  <1> USE DEF accounts, tab, keys
  <1>1. CASE UNCHANGED <<ui, tokens, call>> /\ (ui # "closed" => UNCHANGED users)
    BY <1>0, <1>1 DEF OneUser
  <1>2. ASSUME NEW e \in Emails, SignInAs(e) PROVE OneUser'
    <2>0. /\ Issued(pool[e]) # Null
          /\ Opened(TRUE, Issued(pool[e])).me
          /\ Opened(TRUE, Issued(pool[e])).token = Issued(pool[e])
      BY <1>0, <1>2, IssuedType DEF SignInAs, Subs, Opened
    <2>1. PICK c \in Calls : call' = [call EXCEPT ![c] = Opened(TRUE, Issued(pool[e]))]
      BY <1>2 DEF SignInAs
    <2>2. call'[c].me /\ call'[c].token = Issued(pool[e])
      BY <1>0, <2>0, <2>1
    <2>3. tokens' = Issued(pool[e])
      BY <1>2 DEF SignInAs
    <2> QED BY <2>0, <2>2, <2>3 DEF OneUser
  <1>3. CASE SignOut
    BY <1>0, <1>3 DEF SignOut, OneUser
  <1>4. CASE Reload
    <2>1. PICK c \in Calls :
             call' = [d \in Calls |-> IF d = c /\ tokens # Null THEN Opened(TRUE, tokens) ELSE Idle]
      BY <1>4 DEF Reload
    <2>2. UNCHANGED tokens /\ (tokens = Null => ui' = "anonymous")
      BY <1>4 DEF Reload
    <2>3. CASE tokens # Null
      <3>1. call'[c] = Opened(TRUE, tokens)
        BY <2>1, <2>3
      <3>2. call'[c].me /\ call'[c].token = tokens
        BY <3>1 DEF Opened
      <3> QED BY <2>2, <2>3, <3>2 DEF OneUser
    <2>4. CASE tokens = Null
      BY <1>0, <2>2, <2>4 DEF OneUser
    <2> QED BY <2>3, <2>4
  <1>5. ASSUME NEW c \in Calls, PageCall(c) PROVE OneUser'
    <2>1. \A d \in Calls : call[d].me => call'[d] = call[d]
      BY <1>0, <1>5 DEF PageCall
    <2>2. UNCHANGED <<ui, tokens, users>>
      BY <1>5 DEF PageCall
    <2> QED BY <2>1, <2>2 DEF OneUser
  <1>6. ASSUME NEW c \in Calls, SignsOut(c) PROVE OneUser'
    BY <1>0, <1>6 DEF SignsOut, DropTokens, OneUser
  <1>7. ASSUME NEW c \in Calls, RefreshSucceeds(c) PROVE OneUser' \/ LateEnds
    <2>1. /\ Issued(call[c].token.owner) # Null
          /\ Issued(call[c].token.owner).owner = call[c].token.owner
      BY <1>7, IssuedType DEF RefreshSucceeds, TInv, Owned
    <2>2. /\ tokens' = Issued(call[c].token.owner)
          /\ call' = [call EXCEPT ![c].pc = "sent", ![c].token = Issued(call[c].token.owner)]
          /\ call[c].pc = "refreshing" /\ UNCHANGED <<ui, users>>
      BY <1>7 DEF RefreshSucceeds
    <2>3. /\ tokens' # Null /\ tokens'.owner = call[c].token.owner
          /\ \A d \in Calls : call'[d].me = call[d].me
                              /\ call'[d].token.owner = call[d].token.owner
          /\ call'[c].pc # call[c].pc
      BY <1>0, <2>1, <2>2 DEF CallType
    <2>4. CASE Late(c)
      BY <2>2, <2>3, <2>4 DEF LateEnds, Late
    <2>5. CASE ~Late(c)
      BY <2>2, <2>3, <2>5 DEF Late, OneUser
    <2> QED BY <2>4, <2>5
  <1>8. ASSUME NEW c \in Calls, RefreshFails(c), ~SignsOut(c) PROVE OneUser'
    <2>1. UNCHANGED <<ui, tokens, users>>
      BY <1>8 DEF RefreshFails
    <2>2. CASE tokens # Null
      <3>1. \A d \in Calls : /\ call'[d].me = call[d].me
                             /\ call'[d].token \in {call[d].token, tokens}
        BY <1>0, <1>8, <2>2 DEF RefreshFails, CallType
      <3> QED BY <2>1, <3>1 DEF OneUser
    <2>3. CASE tokens = Null
      BY <2>1, <2>3 DEF OneUser
    <2> QED BY <2>2, <2>3
  <1>9. ASSUME NEW c \in Calls, Deliver(c), ~SignsOut(c) PROVE OneUser' \/ LateEnds
    <2>1. /\ Ends(c) /\ UNCHANGED <<tokens, users>> /\ call[c].pc = "answered"
          /\ \/ call[c].me /\ ui' \in Emails /\ users[ui'] = call[c].token.owner
             \/ ~call[c].me /\ UNCHANGED ui
      BY <1>9 DEF Deliver, ShowsUser
    <2>2. /\ call'[c].pc # call[c].pc
          /\ \A d \in Calls : d # c => call'[d] = call[d]
      BY <1>0, <1>a, <2>1 DEF Ends
    <2>3. CASE ~call[c].me
      BY <2>1, <2>2, <2>3 DEF OneUser
    <2>4. CASE call[c].me /\ ~Late(c)
      BY <2>1, <2>4 DEF OneUser, Late
    <2>5. CASE call[c].me /\ Late(c) /\ ui' # ui
      BY <2>2, <2>5 DEF LateEnds
    <2>6. CASE call[c].me /\ Late(c) /\ ui' = ui
      BY <2>1, <2>2, <2>6 DEF OneUser, Late
    <2> QED BY <2>3, <2>4, <2>5, <2>6
  <1>10. ASSUME NEW c \in Calls, Verify(c) PROVE OneUser'
    <2>1. PICK a \in {"200", "401", "error"} :
             call' = [call EXCEPT ![c].pc = "answered", ![c].answer = a]
      BY <1>10 DEF Verify, Answered, Answers
    <2>2. \A d \in Calls : call'[d].me = call[d].me /\ call'[d].token = call[d].token
      BY <1>0, <2>1 DEF CallType
    <2>3. UNCHANGED <<users, ui, tokens>>
      BY <1>10 DEF Verify
    <2> QED BY <2>2, <2>3 DEF OneUser
  <1>11. CASE TokensAge
    <2>1. /\ tokens'.owner = tokens.owner /\ (tokens' = Null <=> tokens = Null)
          /\ UNCHANGED <<users, ui>>
      BY <1>0, <1>11, OlderType DEF TokensAge
    <2>2. \A c \in Calls : call'[c].me = call[c].me
                           /\ call'[c].token.owner = call[c].token.owner
      BY <1>0, <1>11, OlderType DEF TokensAge, CallType
    <2> QED BY <2>1, <2>2 DEF OneUser
  <1> QED BY <1>1, <1>2, <1>3, <1>4, <1>5, <1>6, <1>7, <1>8, <1>9, <1>10, <1>11
          DEF SignInNext, Submit, SignInRefused, Rotate, Retire, HourPasses

--------------------------------------------------------------------------------
(* The keys of the pool and of the cache.                                  *)

\* A key off the JWKS for an hour is in no cache of the last hour.
KInv ==
    /\ signing \in Nat
    /\ published \subseteq 1..signing
    /\ gone \subseteq 1..signing
    /\ gone \cap published = {}
    /\ cache.stale \in BOOLEAN
    /\ ~cache.stale => cache.keys \cap gone = {}

LEMMA SignInInitInv == SignInInit => AInv /\ TInv /\ KInv
  <1> SUFFICES ASSUME SignInInit PROVE AInv /\ TInv /\ KInv OBVIOUS
  <1>1. AInv
    <2>1. CASE AccountsInit
      BY <2>1, AccountsInvInit
    <2>2. CASE ~AccountsInit
      <3>1. /\ pool \in [Emails -> Subs] /\ users \in [Emails -> Subs]
            /\ op = [o \in Operations |-> [pc |-> "done", sub |-> NoSub]]
            /\ takenOver = {} /\ RowsAreBound
        BY <2>2, SignInAssumption DEF SignInInit, Subs
      <3>2. AccountsType
        BY <3>1 DEF AccountsType, Steps, Subs
      <3>3. OperationSteps /\ HeldByOne
        BY <3>1 DEF OperationSteps, HeldByOne, UnderWay
      <3> QED BY <3>1, <3>2, <3>3 DEF AInv
    <2> QED BY <2>1, <2>2
  <1>2. TInv
    <2>1. /\ ui \in {"closed", "anonymous"} /\ tokens = Null
          /\ call = [c \in Calls |-> Idle]
      BY DEF SignInInit
    <2>2. TabType
      BY <2>1, NullType DEF TabType
    <2>3. CallSteps /\ Owned
      BY <2>1 DEF CallSteps, Owned, Idle
    <2> QED BY <2>2, <2>3 DEF TInv
  <1>3. KInv
    BY DEF SignInInit, KInv
  <1> QED BY <1>1, <1>2, <1>3

LEMMA KeysInvNext == KInv /\ SignInNext => KInv'
  <1> SUFFICES ASSUME KInv, SignInNext PROVE KInv' OBVIOUS
  <1> USE DEF KInv, keys, accounts, tab
  <1>1. CASE UNCHANGED <<keys, cache>>
    BY <1>1
  <1>2. ASSUME NEW c \in Calls, Verify(c) PROVE KInv'
    <2>1. CASE UNCHANGED cache
      BY <1>2, <2>1 DEF Verify
    <2>2. CASE cache' = [keys |-> published, stale |-> FALSE]
      <3>1. cache'.keys = published /\ cache'.stale = FALSE
        BY <2>2
      <3>2. UNCHANGED <<signing, published, gone>>
        BY <1>2 DEF Verify
      <3> QED BY <3>1, <3>2
    <2> QED BY <1>2, <2>1, <2>2 DEF Verify
  <1>3. CASE Rotate
    BY <1>3 DEF Rotate
  <1>4. CASE Retire
    BY <1>4 DEF Retire
  <1>5. CASE HourPasses
    BY <1>5 DEF HourPasses
  <1> QED BY <1>1, <1>2, <1>3, <1>4, <1>5
          DEF SignInNext, Submit, SignInAs, SignInRefused, SignOut, Reload, PageCall, RefreshSucceeds, RefreshFails,
              Deliver, TokensAge

LEMMA SignInInvNext ==
  AInv /\ TInv /\ KInv /\ [SignInNext]_signInVars => (AInv /\ TInv /\ KInv)'
  <1> SUFFICES ASSUME AInv, TInv, KInv, [SignInNext]_signInVars
               PROVE  (AInv /\ TInv /\ KInv)'
    OBVIOUS
  <1>1. CASE SignInNext
    <2>1. AInv'
      <3>1. CASE UNCHANGED accounts
        BY <3>1 DEF accounts, AInv, AccountsType, OperationSteps, HeldByOne, UnderWay, RowsAreBound
      <3>2. CASE AccountsNext
        BY <3>2, AccountsInvNext
      <3> QED BY <1>1, <3>1, <3>2
              DEF SignInNext, Submit, SignInAs, SignInRefused, SignOut, Reload, PageCall, RefreshSucceeds, RefreshFails,
                  Verify, Deliver, Rotate, Retire, HourPasses, TokensAge
    <2>2. TInv'
      BY <1>1, TabInvNext DEF KInv
    <2>3. KInv'
      BY <1>1, KeysInvNext
    <2> QED BY <2>1, <2>2, <2>3
  <1>2. CASE UNCHANGED signInVars
    <2> USE <1>2 DEF signInVars, accounts, tab, keys
    <2>1. AInv'
      BY DEF AInv, AccountsType, OperationSteps, HeldByOne, UnderWay, RowsAreBound
    <2>2. TInv'
      BY DEF TInv, TabType, CallSteps, Owned
    <2>3. KInv'
      BY DEF KInv
    <2> QED BY <2>1, <2>2, <2>3
  <1> QED BY <1>1, <1>2

LEMMA SignInInv == SignInSpec => [](AInv /\ TInv /\ KInv)
  BY SignInInitInv, SignInInvNext, PTL DEF SignInSpec

\* A call that was sent is answered by the API's check of its token, and by nothing else.
LEMMA AnswersAreChecked ==
  ASSUME TInv, SignInNext, NEW c \in Calls, call[c].pc = "sent",
         call'[c].answer \in {"200", "401"}
  PROVE  Verify(c)
  <1>0. /\ call[c].answer = "none" /\ Idle.answer = "none"
        /\ call \in [Calls -> [pc : {"idle", "refreshing", "sent", "answered"}, me : BOOLEAN,
                               token : Tokens, answer : {"none", "200", "401", "error"}]]
        /\ \A me \in BOOLEAN, t \in Tokens : Opened(me, t).answer = "none"
    BY DEF TInv, TabType, CallSteps, Idle, Opened
  <1> USE <1>0
  <1>1. ~UNCHANGED call
    OBVIOUS
  <1>2. ASSUME NEW e \in Emails, SignInAs(e) PROVE FALSE
    <2>1. PICK d \in Calls : call' = [call EXCEPT ![d] = Opened(TRUE, tokens')]
      BY <1>2 DEF SignInAs
    <2>2. Opened(TRUE, tokens').answer = "none"
      BY DEF Opened
    <2> QED BY <2>1, <2>2
  <1>3. ~Reload
    <2> SUFFICES ASSUME Reload PROVE FALSE OBVIOUS
    <2>1. PICK d \in Calls :
             call' = [b \in Calls |-> IF b = d /\ tokens # Null THEN Opened(TRUE, tokens) ELSE Idle]
      BY DEF Reload
    <2>2. Opened(TRUE, tokens).answer = "none"
      BY DEF Opened
    <2> QED BY <2>1, <2>2
  <1>4. ASSUME NEW d \in Calls, PageCall(d) PROVE FALSE
    <2>1. Opened(FALSE, tokens).answer = "none"
      BY DEF Opened
    <2> QED BY <1>4, <2>1 DEF PageCall
  <1>5. ASSUME NEW d \in Calls, RefreshSucceeds(d) \/ RefreshFails(d) \/ Deliver(d) PROVE FALSE
    BY <1>5 DEF RefreshSucceeds, RefreshFails, Deliver, SignsOut, Ends
  <1>6. ASSUME NEW d \in Calls, Verify(d), d # c PROVE FALSE
    BY <1>6 DEF Verify, Answered
  <1>7. ~TokensAge
    BY DEF TokensAge
  <1> QED BY <1>1, <1>2, <1>3, <1>4, <1>5, <1>6, <1>7
          DEF SignInNext, Submit, SignInRefused, tab, SignOut, Rotate, Retire, HourPasses

--------------------------------------------------------------------------------
(* The theorems.                                                           *)

\* Whatever invitations, create-users and seeds race, are cut short or undone, a row of the
\* users table is bound to the identity of its address, except a row bound to an identity
\* that a seed took over from an operation under way (users.py:79-88, cli.py:139-150,
\* 195-201).
THEOREM RowsStayBound == SignInSpec => []RowsAreBound
  <1>1. AInv => RowsAreBound
    BY DEF AInv
  <1> QED BY <1>1, SignInInv, PTL

\* The compensation, which deletes an identity by its address, deletes the one its own
\* operation created, also when that was taken over meanwhile (users.py:84, cli.py:200).
THEOREM UndoneIsItsOwn == SignInSpec => UndoTakesItsOwn
  <1> DEFINE Own == \A e \in Emails : pool[e] # NoSub /\ pool'[e] # pool[e] =>
                       \E o \in Operations : pool[e] = o /\ op[o].pc = "undo" /\ pool'[e] = NoSub
  <1>1. ASSUME AInv, AccountsNext PROVE Own
    <2>0. pool \in [Emails -> Subs]
      BY <1>1 DEF AInv, AccountsType
    <2>1. ASSUME NEW o \in Operations, CreateIdentity(o) PROVE Own
      BY <2>0, <2>1 DEF CreateIdentity
    <2>2. ASSUME NEW o \in Operations, Undo(o) PROVE Own
      <3>1. /\ op[o].pc = "undo" /\ Asked[o].email \in Emails
            /\ pool' = [pool EXCEPT ![Asked[o].email] = NoSub]
        BY <2>2, AskedType DEF Undo
      <3>2. Asked[o].kind # "seed" /\ op[o].sub = o /\ op[o].sub # NoSub
        BY <1>1, <3>1 DEF AInv, OperationSteps
      <3>3. pool[Asked[o].email] = o
        BY <1>1, <3>2 DEF AInv, HeldByOne
      <3> QED BY <2>0, <3>1, <3>3
    <2>3. CASE UNCHANGED pool
      BY <2>3
    <2> QED BY <1>1, <2>1, <2>2, <2>3
            DEF AccountsNext, Begin, SetPassword, Save, Cut, ResetDatabase
  <1>2. AInv /\ [SignInNext]_signInVars => [Own]_accounts
    <2> SUFFICES ASSUME AInv, [SignInNext]_signInVars, ~UNCHANGED accounts PROVE Own
      OBVIOUS
    <2>1. AccountsNext
      BY DEF signInVars, SignInNext, Submit, SignInAs, SignInRefused, SignOut, Reload, PageCall,
             RefreshSucceeds, RefreshFails, Verify, Deliver, Rotate, Retire, HourPasses, TokensAge
    <2> QED BY <1>1, <2>1
  <1> QED BY <1>2, SignInInv, PTL DEF SignInSpec, UndoTakesItsOwn

\* The tab holds the tokens of the user it shows, whatever sign-ins, calls and refreshes are
\* under way, except after the end of a call of a session that was over: its refresh, or its
\* /api/me (client.ts:38-50, AuthContext.tsx:33-41).
THEOREM TabStaysOneUser == SignInSpec => TabIsOneUser
  <1>1. SignInInit => OneUser
    BY SignInAssumption DEF SignInInit, AccountsInit, OneUser
  <1>2. AInv /\ TInv /\ KInv /\ [SignInNext]_signInVars
           => [OneUser => OneUser' \/ LateEnds]_signInVars
    BY StepKeepsOneUser DEF KInv
  <1> QED BY <1>1, <1>2, SignInInv, PTL DEF SignInSpec, TabIsOneUser

\* A live token signed with a published key is never answered 401 (jwt.py:42-50).
THEOREM PublishedAccepted == SignInSpec => PublishedNeverRefused
  <1> DEFINE Refused(c) == Checked(c, "401") =>
                 call[c].token.age = Expired \/ call[c].token.key \notin published
  <1>1. ASSUME TInv, SignInNext, NEW c \in Calls PROVE Refused(c)
    <2> SUFFICES ASSUME Checked(c, "401") PROVE Refused(c) OBVIOUS
    <2>1. Verify(c)
      BY <1>1, AnswersAreChecked DEF Checked
    <2>2. call[c] \in [pc : {"idle", "refreshing", "sent", "answered"}, me : BOOLEAN,
                       token : Tokens, answer : {"none", "200", "401", "error"}]
      BY <1>1 DEF TInv, TabType
    <2>3. call \in [Calls -> [pc : {"idle", "refreshing", "sent", "answered"}, me : BOOLEAN,
                             token : Tokens, answer : {"none", "200", "401", "error"}]]
      BY <1>1 DEF TInv, TabType
    <2> QED BY <2>1, <2>2, <2>3 DEF Verify, Answered, Answers, MustFetch, Checked
  <1>2. ASSUME UNCHANGED signInVars, TInv, NEW c \in Calls PROVE Refused(c)
    BY <1>2 DEF signInVars, tab, TInv, CallSteps, Checked
  <1>3. TInv /\ [SignInNext]_signInVars => [\A c \in Calls : Refused(c)]_signInVars
    BY <1>1, <1>2
  <1> QED BY <1>3, SignInInv, PTL DEF SignInSpec, PublishedNeverRefused

\* A token signed with a key off the JWKS is accepted for an hour at most (jwt.py:12, 44).
THEOREM RetiredRefused == SignInSpec => RetiredNotAccepted
  <1> DEFINE Kept(c) == Checked(c, "200") => call[c].token.key \notin gone
  <1>1. ASSUME TInv, KInv, SignInNext, NEW c \in Calls PROVE Kept(c)
    <2> SUFFICES ASSUME Checked(c, "200") PROVE Kept(c) OBVIOUS
    <2>1. Verify(c)
      BY <1>1, AnswersAreChecked DEF Checked
    <2>2. call \in [Calls -> [pc : {"idle", "refreshing", "sent", "answered"}, me : BOOLEAN,
                             token : Tokens, answer : {"none", "200", "401", "error"}]]
      BY <1>1 DEF TInv, TabType
    <2> QED BY <1>1, <2>1, <2>2 DEF Verify, Answered, Answers, MustFetch, Checked, KInv
  <1>2. ASSUME UNCHANGED signInVars, TInv, NEW c \in Calls PROVE Kept(c)
    BY <1>2 DEF signInVars, tab, TInv, CallSteps, Checked
  <1>3. TInv /\ KInv /\ [SignInNext]_signInVars => [\A c \in Calls : Kept(c)]_signInVars
    BY <1>1, <1>2
  <1> QED BY <1>3, SignInInv, PTL DEF SignInSpec, RetiredNotAccepted
================================================================================
