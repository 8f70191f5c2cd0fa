----------------------------- MODULE TabSession -----------------------------
(***************************************************************************)
(* One tab of the web interface and its session (web/src/lib/auth.tsx and  *)
(* fetchApi in web/src/lib/api.ts): the session the tab believes in, the   *)
(* cookie every tab of the browser shares and no script can read, the      *)
(* cache of the query library, and the requests under way when the session *)
(* ends, is taken away, or is replaced from another tab.                   *)
(*                                                                         *)
(* A session is its number; 0 is none.                                     *)
(***************************************************************************)
EXTENDS SequencesExt

CONSTANTS People,     \* who may sign in here
          MaxSessions \* sign-ins, those of another tab included

ASSUME MaxSessionsAssumption == MaxSessions \in Nat

VARIABLES owners,  \* whom each session belongs to, and whether this tab made it
          live,    \* the sessions the server still accepts
          cookie,  \* the session the browser sends
          session, \* the session the tab shows
          hadSession, sessionExpired, isLoading,
          cache,   \* whose answers the query cache holds
          query, mutation, quitting \* the requests under way

tabVars == <<owners, live, cookie, session, hadSession, sessionExpired, isLoading,
             cache, query, mutation, quitting>>

None == [at |-> "no", as |-> 0]
Sent == [at |-> "sent", as |-> cookie]

\* Whose answer a session gets.
Of(s) == IF owners[s].here THEN owners[s].who ELSE "another tab"

TabInit ==
  /\ owners = <<>> /\ live = {}
  /\ cookie = 0 /\ session = 0
  /\ hadSession = FALSE /\ sessionExpired = FALSE
  /\ isLoading = TRUE
  /\ cache = {}
  /\ query = None /\ mutation = None /\ quitting = None

NewSession(p, here) ==
  /\ Len(owners) < MaxSessions
  /\ owners' = Append(owners, [who |-> p, here |-> here])
  /\ live' = live \cup {Len(owners) + 1}
  /\ cookie' = Len(owners) + 1

\* The server answers a request by the session it came with.
Served(request) == [request EXCEPT !.at = IF request.as \in live THEN "ok" ELSE "401"]

-----------------------------------------------------------------------------
(***************************************************************************)
(* The tab comes up and asks who it is before it shows any page.           *)
(***************************************************************************)
probe ==
  /\ isLoading
  /\ isLoading' = FALSE
  /\ session' = IF cookie \in live THEN cookie ELSE 0
  /\ hadSession' = (cookie \in live)
  /\ UNCHANGED <<owners, live, cookie, sessionExpired, cache, query, mutation, quitting>>

Reload ==
  /\ ~isLoading
  /\ session' = 0 /\ hadSession' = FALSE /\ sessionExpired' = FALSE
  /\ isLoading' = TRUE
  /\ cache' = {}
  /\ query' = None /\ mutation' = None /\ quitting' = None
  /\ UNCHANGED <<owners, live, cookie>>

login(p) ==
  /\ ~isLoading /\ session = 0
  /\ NewSession(p, TRUE)
  /\ session' = cookie'
  /\ hadSession' = TRUE /\ sessionExpired' = FALSE
  /\ UNCHANGED <<isLoading, cache, query, mutation, quitting>>

\* Mutant: what was fetched outlives the session it was fetched with.
ForgetSession ==
  /\ session' = 0 /\ hadSession' = FALSE
  /\ query' = None
  /\ UNCHANGED cache

\* Both ways out drop the session and empty the cache, which cancels the
\* queries under way but not the mutations.
DropSession ==
  /\ session' = 0 /\ hadSession' = FALSE
  /\ cache' = {} /\ query' = None

\* The handler every 401 calls.  Without a session to lose it is no expiry.
onAuthError ==
  /\ sessionExpired' = (sessionExpired \/ hadSession)
  /\ DropSession

-----------------------------------------------------------------------------
AskQuery ==
  /\ session # 0 /\ query.at = "no"
  /\ query' = Sent
  /\ UNCHANGED <<owners, live, cookie, session, hadSession, sessionExpired, isLoading,
                 cache, mutation, quitting>>

QueryServed ==
  /\ query.at = "sent"
  /\ query' = Served(query)
  /\ UNCHANGED <<owners, live, cookie, session, hadSession, sessionExpired, isLoading,
                 cache, mutation, quitting>>

QueryAnswered ==
  /\ \/ /\ query.at = "ok"
        /\ cache' = cache \cup {Of(query.as)}
        /\ query' = None
        /\ UNCHANGED <<session, hadSession, sessionExpired>>
     \/ query.at = "401" /\ onAuthError
  /\ UNCHANGED <<owners, live, cookie, isLoading, mutation, quitting>>

AskMutation ==
  /\ session # 0 /\ mutation.at = "no"
  /\ mutation' = Sent
  /\ UNCHANGED <<owners, live, cookie, session, hadSession, sessionExpired, isLoading,
                 cache, query, quitting>>

MutationServed ==
  /\ mutation.at = "sent"
  /\ mutation' = Served(mutation)
  /\ UNCHANGED <<owners, live, cookie, session, hadSession, sessionExpired, isLoading,
                 cache, query, quitting>>

MutationAnswered ==
  /\ mutation.at \in {"ok", "401"}
  /\ mutation' = None
  /\ IF mutation.at = "401" THEN onAuthError
     ELSE UNCHANGED <<session, hadSession, sessionExpired, cache, query>>
  /\ UNCHANGED <<owners, live, cookie, isLoading, quitting>>

(***************************************************************************)
(* Signing out on purpose.                                                 *)
(***************************************************************************)
logout ==
  /\ session # 0 /\ quitting.at = "no"
  /\ quitting' = Sent
  /\ UNCHANGED <<owners, live, cookie, session, hadSession, sessionExpired, isLoading,
                 cache, query, mutation>>

LogoutServed ==
  /\ quitting.at = "sent"
  /\ quitting' = Served(quitting)
  /\ live' = live \ {quitting.as}
  /\ UNCHANGED <<owners, cookie, session, hadSession, sessionExpired, isLoading, cache,
                 query, mutation>>

\* The answer takes the cookie away.  Whatever the answer, and after the
\* handler when it was a 401, the tab is signed out and it was no expiry.
LogoutSettled ==
  /\ quitting.at \in {"ok", "401"}
  /\ cookie' = IF quitting.at = "ok" THEN 0 ELSE cookie
  /\ DropSession /\ sessionExpired' = FALSE
  /\ quitting' = None
  /\ UNCHANGED <<owners, live, isLoading, mutation>>

\* The request or its answer is lost: the tab is signed out, the browser not.
LogoutFails ==
  /\ quitting.at # "no"
  /\ DropSession /\ sessionExpired' = FALSE
  /\ quitting' = None
  /\ UNCHANGED <<owners, live, cookie, isLoading, mutation>>

-----------------------------------------------------------------------------
(***************************************************************************)
(* The server ends a session; another tab signs in.                        *)
(***************************************************************************)
SessionEnds(s) ==
  /\ live' = live \ {s}
  /\ UNCHANGED <<owners, cookie, session, hadSession, sessionExpired, isLoading, cache,
                 query, mutation, quitting>>

OtherTabSignsIn(p) ==
  /\ NewSession(p, FALSE)
  /\ UNCHANGED <<session, hadSession, sessionExpired, isLoading, cache, query, mutation,
                 quitting>>

TabStep ==
  \/ probe \/ Reload
  \/ \E p \in People : login(p) \/ OtherTabSignsIn(p)
  \/ AskQuery \/ QueryServed \/ QueryAnswered
  \/ AskMutation \/ MutationServed \/ MutationAnswered
  \/ logout \/ LogoutServed \/ LogoutSettled \/ LogoutFails
  \/ \E s \in live : SessionEnds(s)

TabSpec == TabInit /\ [][TabStep]_tabVars

-----------------------------------------------------------------------------
(* What the cache serves to whoever is signed in was fetched by them: never *)
(* by the person before, whatever was under way when the tab changed hands. *)
(* A sign-in in another tab changes the cookie behind this one's back and   *)
(* is not covered.                                                          *)
CacheIsOwn ==
  cache # {} => session # 0 /\ cache \subseteq {Of(session), "another tab"}
=============================================================================
