---------------------------- MODULE OAuthSession ----------------------------
(* The session with one CRM: the row of PostgresConnectionStore, the refresh  *)
(* that getAccessToken() shares between its callers (salesforce/auth.ts and   *)
(* hubspot/auth.ts), the admin's OAuth routes, and the HTTP client that       *)
(* ensureLiveInit() builds from a session once and keeps.                     *)
EXTENDS Naturals, FiniteSets

CONSTANTS
  Caller,      \* requests that need the connector
  NoConn,      \* no row
  Rotates,     \* the vendor replaces the refresh token at each refresh
  MaxTokens,   \* bound: tokens the vendor issues
  MaxGrants,   \* bound: authorizations by an admin
  MaxFaults    \* bound: lost answers and restarts

Grant == 0 .. MaxGrants    \* 0: the refresh token in the environment
Token == 0 .. MaxTokens

VARIABLES
  conn,        \* crm_connections: the tokens, and the grant they come from
  valid,       \* vendor: the refresh tokens it takes
  issued,      \* vendor: the number of the token issued last
  spent,       \* the access tokens whose expiresAt has passed
  flight,      \* refreshInFlight: the connection it was given, its reply
  caller,      \* per caller: where it is, what it is for, the row it read
  client,      \* the connector's http: whose grant, which access token
  liveInited,
  grants,      \* authorizations started
  states,      \* oauthStates: entries waiting for their callback
  exchanging,  \* callbacks whose code is being exchanged
  resets,      \* handlers that changed the connection, not yet liveInited
  faults,
  cut,         \* history: the stored token was made stale from outside
  raced,       \* history: the last reset found an initialization under way
  vain         \* history: a caller was told to reconnect beside a good token

vendorVars  == <<valid, issued, spent>>
adminVars   == <<grants, states, exchanging, resets>>
historyVars == <<cut, raced, vain>>
sessionVars == <<conn, vendorVars, flight, caller, client, liveInited, adminVars,
                 faults, historyVars>>

Row(g, r, a) == [grant |-> g, refresh |-> r, access |-> a]
Rows == [grant : Grant, refresh : Token, access : Token]
NoFlight == [at |-> "none", conn |-> NoConn, refresh |-> 0, access |-> 0]
Away == [at |-> "away", for |-> "init", conn |-> NoConn]
NoClient == [grant |-> 0, access |-> 0]

Init ==
  /\ conn = NoConn /\ valid = {0} /\ issued = 0
  /\ spent = {0}            \* 0 also stands for an absent access token
  /\ flight = NoFlight
  /\ caller = [c \in Caller |-> Away]
  /\ client = NoClient /\ liveInited = FALSE
  /\ grants = 0 /\ states = {} /\ exchanging = {} /\ resets = 0
  /\ faults = 0
  /\ cut = FALSE /\ raced = FALSE /\ vain = FALSE

-----------------------------------------------------------------------------
(* The admin's routes *)

\* GET /auth/:system/start
Start ==
  /\ grants < MaxGrants
  /\ grants' = grants + 1
  /\ states' = states \cup {grants + 1}
  /\ UNCHANGED <<conn, vendorVars, flight, caller, client, liveInited,
                 exchanging, resets, faults, historyVars>>

\* The timer of ten minutes
StateExpires(g) ==
  /\ g \in states
  /\ states' = states \ {g}
  /\ UNCHANGED <<conn, vendorVars, flight, caller, client, liveInited, grants,
                 exchanging, resets, faults, historyVars>>

\* GET /auth/:system/callback: the entry serves once.
Callback(g) ==
  /\ g \in states
  /\ states' = states \ {g}
  /\ exchanging' = exchanging \cup {g}
  /\ UNCHANGED <<conn, vendorVars, flight, caller, client, liveInited, grants,
                 resets, faults, historyVars>>

\* exchangeCode(): the vendor's tokens, then the row.
Exchanged(g) ==
  /\ g \in exchanging /\ issued < MaxTokens
  /\ exchanging' = exchanging \ {g}
  /\ issued' = issued + 1
  /\ valid' = valid \cup {issued + 1}
  /\ conn' = Row(g, issued + 1, issued + 1)
  /\ resets' = resets + 1
  /\ cut' = FALSE
  /\ UNCHANGED <<spent, flight, caller, client, liveInited, grants, states,
                 faults, raced, vain>>

ExchangeFails(g) ==
  /\ g \in exchanging
  /\ exchanging' = exchanging \ {g}
  /\ UNCHANGED <<conn, vendorVars, flight, caller, client, liveInited, grants,
                 states, resets, faults, historyVars>>

\* POST /api/connections/:system/disconnect: the row goes, then the audit.
Disconnect ==
  /\ conn # NoConn /\ resets = 0
  /\ conn' = NoConn
  /\ resets' = resets + 1
  /\ UNCHANGED <<vendorVars, flight, caller, client, liveInited, grants, states,
                 exchanging, faults, historyVars>>

\* POST /api/settings/:system: other credentials of the app
SaveCredentials ==
  /\ resets = 0
  /\ resets' = resets + 1
  /\ UNCHANGED <<conn, vendorVars, flight, caller, client, liveInited, grants,
                 states, exchanging, faults, historyVars>>

Initializing(c) == caller[c].at # "away"

\* Mutant: the flag stays.
KeepInited == UNCHANGED liveInited

ForceInit == liveInited' = FALSE

\* The last step of all three
Reset ==
  /\ resets > 0
  /\ resets' = resets - 1
  /\ ForceInit
  /\ raced' = \E c \in Caller : Initializing(c)
  /\ UNCHANGED <<conn, vendorVars, flight, caller, client, grants, states,
                 exchanging, faults, cut, vain>>

-----------------------------------------------------------------------------
(* Callers: ensureLiveInit(), and the interceptor of a 401 *)

Goes(c, at) == caller' = [caller EXCEPT ![c].at = at]

EnsureLiveInit(c) ==
  /\ ~Initializing(c) /\ ~liveInited
  /\ caller' = [caller EXCEPT ![c] = [Away EXCEPT !.at = "get"]]
  /\ UNCHANGED <<conn, vendorVars, flight, client, liveInited, adminVars, faults,
                 historyVars>>

Unauthorized(c) ==
  /\ ~Initializing(c) /\ liveInited
  /\ client.access \in spent
  /\ caller' = [caller EXCEPT ![c] = [Away EXCEPT !.at = "get", !.for = "retry"]]
  /\ UNCHANGED <<conn, vendorVars, flight, client, liveInited, adminVars, faults,
                 historyVars>>

\* getAccessToken(): connections.get ...
Get(c) ==
  /\ caller[c].at = "get"
  /\ caller' = [caller EXCEPT ![c].at = "got", ![c].conn = conn]
  /\ UNCHANGED <<conn, vendorVars, flight, client, liveInited, adminVars, faults,
                 historyVars>>

\* ... no row, but a refresh token in the environment: it becomes the row.
Seed(c) ==
  /\ caller[c].at = "got" /\ caller[c].conn = NoConn
  /\ conn' = Row(0, 0, 0)
  /\ caller' = [caller EXCEPT ![c].conn = Row(0, 0, 0)]
  /\ cut' = (0 \notin valid)
  /\ UNCHANGED <<vendorVars, flight, client, liveInited, adminVars, faults, raced,
                 vain>>

\* ... no row: an error.
NotConnected(c) ==
  /\ caller[c].at = "got" /\ caller[c].conn = NoConn
  /\ Goes(c, "away")
  /\ UNCHANGED <<conn, vendorVars, flight, client, liveInited, adminVars, faults,
                 historyVars>>

\* What a caller does with a session: init() builds the client and goes on to
\* warm its caches, the interceptor replaces the header.
Given(c, g, a) ==
  /\ client' = [grant |-> g, access |-> a]
  /\ Goes(c, IF caller[c].for = "init" THEN "warm" ELSE "away")

\* ... a token not within a minute of its expiry is handed out.
HandOut(c) ==
  LET row == caller[c].conn IN
  /\ caller[c].at = "got" /\ row # NoConn
  /\ row.access \notin spent
  /\ Given(c, row.grant, row.access)
  /\ UNCHANGED <<conn, vendorVars, flight, liveInited, adminVars, faults,
                 historyVars>>

Stale(c) == /\ caller[c].at = "got" /\ caller[c].conn # NoConn
            /\ caller[c].conn.access \in spent

\* ... otherwise the caller waits for the refresh in flight, or starts one.
Join(c) ==
  /\ Stale(c) /\ flight # NoFlight
  /\ Goes(c, "waits")
  /\ UNCHANGED <<conn, vendorVars, flight, client, liveInited, adminVars, faults,
                 historyVars>>

StartRefresh(c) ==
  /\ Stale(c) /\ flight = NoFlight
  /\ flight' = [NoFlight EXCEPT !.at = "asked", !.conn = caller[c].conn]
  /\ Goes(c, "waits")
  /\ UNCHANGED <<conn, vendorVars, client, liveInited, adminVars, faults,
                 historyVars>>

\* Promise.all of the init() calls
Ready(c) ==
  /\ caller[c].at = "warm"
  /\ Goes(c, "away")
  /\ liveInited' = TRUE
  /\ UNCHANGED <<conn, vendorVars, flight, client, adminVars, faults,
                 historyVars>>

InitFails(c) ==
  /\ caller[c].at = "warm"
  /\ Goes(c, "away")
  /\ UNCHANGED <<conn, vendorVars, flight, client, liveInited, adminVars, faults,
                 historyVars>>

-----------------------------------------------------------------------------
(* refreshAccessToken() and the vendor *)

Rejected == caller' = [c \in Caller |->
                         IF caller[c].at = "waits" THEN Away ELSE caller[c]]

Issue(old) ==
  /\ issued < MaxTokens
  /\ issued' = issued + 1
  /\ valid' = IF Rotates THEN (valid \ {old}) \cup {issued + 1} ELSE valid

Refreshed ==
  /\ flight.at = "asked" /\ flight.conn.refresh \in valid
  /\ Issue(flight.conn.refresh)
  /\ flight' = [flight EXCEPT
       !.at = "answered", !.access = issued + 1,
       !.refresh = IF Rotates THEN issued + 1 ELSE flight.conn.refresh]
  /\ UNCHANGED <<conn, spent, caller, client, liveInited, adminVars, faults,
                 historyVars>>

\* invalid_grant: reconnectRequired()
Refused ==
  /\ flight.at = "asked" /\ flight.conn.refresh \notin valid
  /\ flight' = NoFlight
  /\ Rejected
  /\ vain' = (vain \/ (conn # NoConn /\ conn.refresh \in valid))
  /\ UNCHANGED <<conn, vendorVars, client, liveInited, adminVars, faults, cut,
                 raced>>

\* A reply that gets lost, or an UPDATE that fails: what was issued is gone.
ReplyLost ==
  /\ flight.at \in {"asked", "answered"} /\ faults < MaxFaults
  /\ faults' = faults + 1
  /\ \/ flight.at = "answered" /\ UNCHANGED <<valid, issued>>
     \/ /\ flight.at = "asked" /\ flight.conn.refresh \in valid
        /\ Issue(flight.conn.refresh)
  /\ flight' = NoFlight
  /\ Rejected
  /\ cut' = TRUE
  /\ UNCHANGED <<conn, spent, client, liveInited, adminVars, raced, vain>>

\* Mutant: the row keeps the refresh token it had.
StoredRow == Row(flight.conn.grant, flight.conn.refresh, flight.access)

\* { ...conn, refreshToken: data.refresh_token ?? conn.refreshToken, ... }
RefreshedRow == Row(flight.conn.grant, flight.refresh, flight.access)

Store ==
  /\ flight.at = "answered"
  /\ conn' = RefreshedRow
  /\ flight' = NoFlight
  /\ IF \E c \in Caller : caller[c].at = "waits"
       THEN client' = [grant |-> flight.conn.grant, access |-> flight.access]
       ELSE UNCHANGED client
  /\ caller' = [c \in Caller |->
       IF caller[c].at # "waits" THEN caller[c]
       ELSE IF caller[c].for = "init" THEN [caller[c] EXCEPT !.at = "warm"]
       ELSE Away]
  /\ UNCHANGED <<vendorVars, liveInited, adminVars, faults, historyVars>>

Expires ==
  /\ conn # NoConn /\ conn.access \notin spent
  /\ spent' = spent \cup {conn.access}
  /\ UNCHANGED <<conn, valid, issued, flight, caller, client, liveInited,
                 adminVars, faults, historyVars>>

Restart ==
  /\ faults < MaxFaults
  /\ faults' = faults + 1
  /\ flight' = NoFlight
  /\ caller' = [c \in Caller |-> Away]
  /\ client' = NoClient /\ liveInited' = FALSE
  /\ states' = {} /\ exchanging' = {} /\ resets' = 0
  /\ cut' = (cut \/ flight.at = "answered")
  /\ raced' = FALSE
  /\ UNCHANGED <<conn, vendorVars, grants, vain>>

-----------------------------------------------------------------------------
Admin == \/ Start \/ Disconnect \/ SaveCredentials \/ Reset
         \/ \E g \in Grant : \/ StateExpires(g) \/ Callback(g)
                             \/ Exchanged(g) \/ ExchangeFails(g)

Asks(c) == \/ EnsureLiveInit(c) \/ Unauthorized(c) \/ Get(c) \/ Seed(c)
           \/ NotConnected(c) \/ HandOut(c) \/ Join(c) \/ StartRefresh(c)
           \/ Ready(c) \/ InitFails(c)

Next == \/ Admin \/ \E c \in Caller : Asks(c)
        \/ Refreshed \/ Refused \/ ReplyLost \/ Store \/ Expires \/ Restart

Spec == Init /\ [][Next]_sessionVars

-----------------------------------------------------------------------------
TypeOK ==
  /\ conn \in Rows \cup {NoConn}
  /\ valid \subseteq Token /\ issued \in Token /\ spent \subseteq Token
  /\ flight \in [at : {"none", "asked", "answered"}, conn : Rows \cup {NoConn},
                 refresh : Token, access : Token]
  /\ caller \in [Caller -> [at : {"away", "get", "got", "waits", "warm"},
                            for : {"init", "retry"}, conn : Rows \cup {NoConn}]]
  /\ client \in [grant : Grant, access : Token] /\ liveInited \in BOOLEAN
  /\ grants \in Grant /\ states \subseteq Grant /\ exchanging \subseteq Grant
  /\ resets \in Nat /\ faults \in 0 .. MaxFaults
  /\ cut \in BOOLEAN /\ raced \in BOOLEAN /\ vain \in BOOLEAN

\* Refresh-token rotation is persisted (HANDOFF.md:107): the stored refresh token
\* is one the vendor takes, or its successor is held by the refresh in flight --
\* however callers, reconnections and refreshes overlap, unless an answer was
\* lost or the row was seeded from the environment.
TokenKept ==
  conn # NoConn /\ ~cut =>
    \/ conn.refresh \in valid
    \/ flight.at = "answered" /\ flight.refresh \in valid

\* A connector taken as initialized calls the organization that is connected:
\* whoever replaces the connection has it built anew, unless an initialization
\* was under way when the flag was cleared.
ClientIsCurrent ==
  liveInited /\ resets = 0 /\ ~raced /\ conn # NoConn => client.grant = conn.grant

\* The same with no exemption (see the README).
NeverAnotherOrganization ==
  liveInited /\ resets = 0 /\ conn # NoConn => client.grant = conn.grant

\* "Refreshes are single-flight" (HANDOFF.md:107), so nobody is told to reconnect
\* while the stored token is good.
NeverToldInVain == ~vain
=============================================================================
