--------------------------------- MODULE SignIn --------------------------------
(***************************************************************************)
(* Signing in: one browser tab (frontend/src/api/client.ts and             *)
(* auth/AuthContext.tsx), the API's check of the access token it sends     *)
(* (auth/jwt.py, auth/deps.py), and the Cognito pool that issues tokens    *)
(* and rotates the keys it signs them with.                                *)
(*                                                                         *)
(* Every await of the tab lets its other handlers run: Cognito's answer to *)
(* a sign-in, the refresh of a token about to expire, and the call itself. *)
(* Nothing is cancelled: an answer acts whatever became of the session it  *)
(* was asked for, and of the page that asked.  Tokens of one owner, key    *)
(* and age are not told apart.                                             *)
(*                                                                         *)
(* The tab needs one thing of the accounts, that a row is bound to the     *)
(* identity of its address (Accounts!RowsAreBound): a behaviour either     *)
(* makes accounts, or opens the tab over accounts that were made.          *)
(***************************************************************************)
EXTENDS Accounts

CONSTANTS
    Calls,      \* the concurrent apiFetch() calls of the tab
    Made,       \* the accounts the tab is opened over: the pools and the users tables
    MaxKeys     \* bound: keys Cognito signs with

ASSUME SignInAssumption ==
    /\ Emails \cap {"closed", "loading", "anonymous", "free"} = {}
    /\ Calls \cap (Emails \cup {"free"}) = {}
    /\ MaxKeys \in Nat \ {0}
    /\ Made.pools \cup Made.rows \subseteq [Emails -> Operations \cup {NoSub}]

VARIABLES
    ui,         \* the tab: "closed", "loading", "anonymous", or the email of the user it shows
    tokens,     \* the tokens of the session, in memory and in sessionStorage
    call,       \* call[c]: how far call c is, whether it is /api/me, its token, its answer
    form,       \* the login page: "free", the email it asks Cognito about, or its /api/me call
    left,       \* the emails that login pages left since asked Cognito about
    signing,    \* the key Cognito signs with; the keys are numbered in their order
    published,  \* the keys of its JWKS
    gone,       \* the keys off the JWKS for an hour or more
    cache       \* JWKSCache: the keys, and whether they were fetched an hour ago or more

tab == <<ui, tokens, call, form, left>>
keys  == <<signing, published, gone>>
signInVars == <<accounts, tab, keys, cache>>

Keys == 1..MaxKeys
Null == [owner |-> NoSub, key |-> 0, age |-> 0]
Idle == [pc |-> "idle", me |-> FALSE, token |-> Null, answer |-> "none"]

\* The age of a token: good, with less than REFRESH_MARGIN_MS to live, expired.
Good == 0
Expiring == 1
Expired == 2

SignInInit ==
    /\ \/ AccountsInit /\ ui = "closed"
       \/ /\ pool \in Made.pools
          /\ users \in Made.rows
          /\ op = [o \in Operations |-> [pc |-> "done", sub |-> NoSub]]
          /\ takenOver = {} /\ cuts = 0 /\ resets = 0
          /\ RowsAreBound
          /\ ui = "anonymous"
    /\ tokens = Null
    /\ call = [c \in Calls |-> Idle]
    /\ signing = 1
    /\ published = {1}
    /\ gone = {}
    /\ cache = [keys |-> {}, stale |-> TRUE]
    /\ form = "free"
    /\ left = {}

--------------------------------------------------------------------------------
(* The tab.                                                                *)

TabOpen == ui # "closed"

\* freshAccessToken(): a token about to expire, or expired, is refreshed first.  A call
\* that refreshes holds the token whose refresh token it sent.
Opened(me, t) ==
    [pc |-> IF t # Null /\ t.age # Good THEN "refreshing" ELSE "sent",
     me |-> me, token |-> t, answer |-> "none"]

Issued(owner) == [owner |-> owner, key |-> signing, age |-> Good]

\* The login page can be used while the tab still loads its user, and blocks only a second
\* submit of its own.
Submit(e) ==
    /\ ui \in {"loading", "anonymous"}
    /\ form = "free"
    /\ form' = e
    /\ UNCHANGED <<accounts, keys, ui, tokens, call, left, cache>>

\* Cognito has answered the sign-in that a page, left since or not, asked for.
CognitoAnswers(e, next) ==
    \/ form = e /\ form' = next /\ UNCHANGED left
    \/ e \in left /\ left' = left \ {e} /\ UNCHANGED form

SignInAs(e) ==
    /\ pool[e] # NoSub
    /\ tokens' = Issued(pool[e])
    /\ \E c \in Calls :
          /\ call[c].pc = "idle"
          /\ call' = [call EXCEPT ![c] = Opened(TRUE, tokens')]
          /\ CognitoAnswers(e, c)
    /\ UNCHANGED <<accounts, keys, ui, cache>>

\* Refused, or a new password is asked for first, which is another submit.
SignInRefused(e) ==
    /\ CognitoAnswers(e, "free")
    /\ UNCHANGED <<accounts, keys, ui, tokens, call, cache>>

SignOut ==
    /\ ui \in Emails
    /\ tokens' = Null
    /\ ui' = "anonymous"
    /\ UNCHANGED <<accounts, keys, call, form, left, cache>>

\* The page is loaded again: its calls are gone, the session storage is not.
Reload ==
    /\ TabOpen
    /\ ui' = IF tokens = Null THEN "anonymous" ELSE "loading"
    /\ \E c \in Calls :
          call' = [d \in Calls |-> IF d = c /\ tokens # Null THEN Opened(TRUE, tokens) ELSE Idle]
    /\ form' = "free" /\ left' = {}
    /\ UNCHANGED <<accounts, keys, tokens, cache>>

PageCall(c) ==
    /\ ui \in Emails
    /\ call[c].pc = "idle"
    /\ call' = [call EXCEPT ![c] = Opened(FALSE, tokens)]
    /\ UNCHANGED <<accounts, keys, ui, tokens, form, left, cache>>

Ends(c) == call' = [call EXCEPT ![c] = Idle]

\* Faulty variant: the tab shows the login page and keeps the refused tokens.
KeepTokens == UNCHANGED tokens

DropTokens == tokens' = Null

\* A refused token, or any error of loadMe(), ends the session; the login page is shown,
\* and is free again if it waited for this call.
SignsOut(c) ==
    /\ DropTokens
    /\ ui' = "anonymous"
    /\ Ends(c)
    /\ form' = (IF form = c THEN "free" ELSE form)
    /\ UNCHANGED left

\* The user is shown, and a login page is left.
ShowsUser(e) ==
    /\ ui' = e
    /\ form' = "free"
    /\ left' = left \cup (Emails \cap {form})

RefreshSucceeds(c) ==
    /\ call[c].pc = "refreshing"
    /\ tokens' = Issued(call[c].token.owner)
    /\ call' = [call EXCEPT ![c].pc = "sent", ![c].token = tokens']
    /\ UNCHANGED <<accounts, keys, ui, form, left, cache>>

\* The call goes out with the session's token of now; with none, reading it throws.
RefreshFails(c) ==
    /\ call[c].pc = "refreshing"
    /\ \/ /\ tokens # Null
          /\ call' = [call EXCEPT ![c].pc = "sent", ![c].token = tokens]
          /\ UNCHANGED <<ui, tokens, form, left>>
       \/ tokens = Null /\ call[c].me /\ SignsOut(c)
       \/ tokens = Null /\ ~call[c].me /\ Ends(c) /\ UNCHANGED <<ui, tokens, form, left>>
    /\ UNCHANGED <<accounts, keys, cache>>

\* The answer arrives.
Deliver(c) ==
    /\ call[c].pc = "answered"
    /\ \/ /\ call[c].answer = "401" \/ (call[c].me /\ call[c].answer = "error")
          /\ SignsOut(c)
       \/ /\ call[c].answer = "200" /\ call[c].me
          /\ \E e \in Emails : users[e] = call[c].token.owner /\ ShowsUser(e)
          /\ Ends(c)
          /\ UNCHANGED tokens
       \/ /\ call[c].answer # "401" /\ ~call[c].me
          /\ Ends(c)
          /\ UNCHANGED <<ui, tokens, form, left>>
    /\ UNCHANGED <<accounts, keys, cache>>

--------------------------------------------------------------------------------
(* The API: JWKSCache.get_key(), verify_access_token(), get_current_user(). *)

\* Faulty variants: keys are fetched only when they are old, or only when one is missing.
MustFetchOld(k) == cache.stale
MustFetchMissing(k) == k \notin cache.keys

\* A fetched set of keys is trusted for an hour.
MustFetch(k) == k \notin cache.keys \/ cache.stale

\* 401 for a token that is not valid, 403 for an identity no county has provisioned; the
\* handlers of an accepted call may fail.
Answers(t, trusted) ==
    IF t.key \notin trusted \/ t.age = Expired THEN {"401"}
    ELSE {"error"} \cup {"200" : e \in {d \in Emails : users[d] = t.owner}}

Answered(c, answers) ==
    \E a \in answers : call' = [call EXCEPT ![c].pc = "answered", ![c].answer = a]

Verify(c) ==
    LET t == call[c].token
    IN  /\ call[c].pc = "sent"
        /\ \/ t = Null /\ Answered(c, {"401"}) /\ UNCHANGED cache
           \/ /\ t # Null /\ ~MustFetch(t.key)
              /\ Answered(c, Answers(t, cache.keys))
              /\ UNCHANGED cache
           \/ /\ t # Null /\ MustFetch(t.key)
              /\ Answered(c, Answers(t, published))
              /\ cache' = [keys |-> published, stale |-> FALSE]
           \/ /\ t # Null /\ MustFetch(t.key)   \* the keys could not be fetched
              /\ Answered(c, {"error"})
              /\ UNCHANGED cache
        /\ UNCHANGED <<accounts, keys, ui, tokens, form, left>>

--------------------------------------------------------------------------------
(* The pool, and time.                                                     *)

Rotate ==
    /\ TabOpen /\ signing < MaxKeys
    /\ signing' = signing + 1
    /\ published' = published \cup {signing + 1}
    /\ UNCHANGED <<accounts, tab, cache, gone>>

Retire ==
    /\ \E k \in published \ {signing} : published' = published \ {k}
    /\ UNCHANGED <<accounts, tab, cache, signing, gone>>

HourPasses ==
    /\ TabOpen
    /\ cache' = [cache EXCEPT !.stale = TRUE]
    /\ gone' = 1..signing \ published
    /\ UNCHANGED <<accounts, tab, signing, published>>

Older(t) == IF t = Null \/ t.age = Expired THEN t ELSE [t EXCEPT !.age = @ + 1]

TokensAge ==
    /\ tokens' = Older(tokens)
    /\ call' = [c \in Calls |-> [call[c] EXCEPT !.token = Older(@)]]
    /\ UNCHANGED <<accounts, keys, ui, form, left, cache>>

SignInNext ==
    \/ ui = "closed" /\ AccountsNext /\ UNCHANGED <<tab, keys, cache>>
    \/ \E e \in Emails : Submit(e) \/ SignInAs(e) \/ SignInRefused(e)
    \/ SignOut \/ Reload
    \/ \E c \in Calls :
          PageCall(c) \/ RefreshSucceeds(c) \/ RefreshFails(c) \/ Verify(c) \/ Deliver(c)
    \/ Rotate \/ Retire \/ HourPasses \/ TokensAge

SignInSpec == SignInInit /\ [][SignInNext]_signInVars

--------------------------------------------------------------------------------
(* Properties.                                                             *)

\* The tab holds the tokens of the user it shows, and none when it shows none; or the
\* /api/me that will tell whose its tokens are is under way.
OneUser ==
    \/ ui \notin Emails /\ tokens = Null
    \/ ui \in Emails /\ tokens # Null /\ tokens.owner = users[ui]
    \/ tokens # Null /\ \E c \in Calls : call[c].me /\ call[c].token.owner = tokens.owner

\* The session that call c was made in is over, or another user's by now.
Late(c) == tokens = Null \/ call[c].token.owner # tokens.owner

\* A call of a session that is over ends: its refresh stores that session's tokens again, or
\* its /api/me shows that session's user.
LateEnds ==
    \E c \in Calls : /\ Late(c)
                     /\ \/ call[c].pc = "refreshing" /\ tokens' # tokens
                        \/ call[c].me /\ ui' # ui
                     /\ call'[c].pc # call[c].pc

\* However refreshes, answers, sign-ins and sign-outs are interleaved, the tab comes to act
\* for another than the user it shows, or to hold tokens while it shows none, only when a
\* call of a session that is over ends (client.ts:38-50, AuthContext.tsx:33-41).
TabIsOneUser == OneUser /\ [][OneUser => OneUser' \/ LateEnds]_signInVars

Checked(c, answer) == call[c].pc = "sent" /\ call[c].token # Null /\ call'[c].answer = answer

\* A token that has not expired, signed with a key of the JWKS, is never answered 401,
\* however the cached keys relate to it (jwt.py:42-50).
PublishedNeverRefused ==
    [][\A c \in Calls : LET t == call[c].token IN
          Checked(c, "401") => t.age = Expired \/ t.key \notin published]_signInVars

\* A token signed with a key taken off the JWKS is accepted for an hour at most
\* (jwt.py:12, 44).
RetiredNotAccepted ==
    [][\A c \in Calls : Checked(c, "200") => call[c].token.key \notin gone]_signInVars
================================================================================
