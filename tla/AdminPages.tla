----------------------------- MODULE AdminPages -----------------------------
(***************************************************************************)
(* The administration pages (lib/admin/useAdminList.ts, useAdminAction.ts, *)
(* components/admin/AdminReportsPage.tsx, AdminContactsPage.tsx,           *)
(* AdminAccountsPage.tsx, AdminAnalyticsPage.tsx): one page is open, its   *)
(* requests are answered in any order or not at all, and the administrator *)
(* goes on clicking meanwhile.                                             *)
(***************************************************************************)
EXTENDS Naturals, FiniteSets

CONSTANTS Tabs,         \* the filters of a list, the views of the dashboard or the accounts searched
          Actions,      \* the kinds of action of a list, each a useAdminAction of its own
          MaxRequests   \* bound: requests one page makes

ASSUME AdminAssumption == IsFiniteSet(Tabs) /\ Tabs # {} /\ MaxRequests \in Nat

VARIABLES page,      \* the page that is open
          tab,       \* status, view (with its range) or the account id last asked for
          shown,     \* the data on screen: of which tab, at which version of the server's data
          loading, failed,
          fetches,   \* list, report or account requests in flight
          acting,    \* what each action awaits
          version,   \* the server's data, changed by every action it serves
          confirmed, \* the version an action reported a success for
          sequence,  \* the number of the fetch made last
          made       \* requests made

adminVars == <<page, tab, shown, loading, failed, fetches, acting, version, confirmed, sequence, made>>

Nothing == [tab |-> "none", version |-> 0]

\* A fetch that has been served keeps what it read; until then it reads `Nothing'.
Fetch(n, t) == [id |-> n, tab |-> t, read |-> Nothing]

AdminInit ==
    /\ page \in {"list", "accounts", "analytics"} /\ tab \in Tabs
    /\ shown = Nothing /\ failed = FALSE /\ loading = (page # "accounts")
    /\ fetches = IF page = "accounts" THEN {} ELSE {Fetch(1, tab)}
    /\ acting = [a \in Actions |-> "idle"] /\ version = 1 /\ confirmed = 1 /\ sequence = 1 /\ made = 1

Request(t) == sequence' = sequence + 1 /\ fetches' = fetches \cup {Fetch(sequence', t)}
More == made < MaxRequests /\ made' = made + 1

Serve(f) ==
    /\ f \in fetches /\ f.read = Nothing
    /\ fetches' = (fetches \ {f}) \cup {[f EXCEPT !.read = [tab |-> f.tab, version |-> version]]}
    /\ UNCHANGED <<page, tab, shown, loading, failed, acting, version, confirmed, sequence, made>>

\* Mutant: whichever answer arrives last is shown.
AnyAnswer(f) == TRUE

\* current(), `!cancelled', or the only search there can be: the request made last.
Latest(f) == f.id = sequence

\* An effect's cleanup and every later load outdate the ones before.
Answer(f) ==
    /\ f \in fetches /\ f.read # Nothing /\ fetches' = fetches \ {f}
    /\ IF Latest(f) THEN shown' = f.read /\ failed' = FALSE /\ loading' = FALSE
       ELSE UNCHANGED <<shown, failed, loading>>
    /\ UNCHANGED <<page, tab, acting, version, confirmed, sequence, made>>

FetchFails(f) ==
    /\ f \in fetches /\ fetches' = fetches \ {f}
    /\ IF Latest(f) THEN failed' = TRUE /\ loading' = FALSE /\ shown' = IF page = "accounts" THEN Nothing ELSE shown
       ELSE UNCHANGED <<shown, failed, loading>>
    /\ UNCHANGED <<page, tab, acting, version, confirmed, sequence, made>>

\* switchStatus, switchView and applyRange.
SwitchTab(t) ==
    /\ page # "accounts" /\ t # tab /\ More
    /\ tab' = t /\ loading' = TRUE /\ Request(t)
    /\ UNCHANGED <<page, shown, failed, acting, version, confirmed>>

Busy == \E a \in Actions : acting[a] # "idle"

\* AdminAccountsPage.search: not while a search or an action runs, and the old account is cleared.
Search(t) ==
    /\ page = "accounts" /\ ~loading /\ ~Busy /\ More
    /\ tab' = t /\ loading' = TRUE /\ failed' = FALSE /\ shown' = Nothing
    /\ Request(t) /\ UNCHANGED <<page, acting, version, confirmed>>

\* A list's kinds of action run side by side, each one once; an account's exclude one another.
Act(a) ==
    /\ acting[a] = "idle" /\ shown # Nothing /\ ~loading /\ More
    /\ page = "list" \/ (page = "accounts" /\ ~Busy /\ shown.tab = tab)
    /\ acting' = [acting EXCEPT ![a] = "asked"] /\ failed' = FALSE
    /\ UNCHANGED <<page, tab, shown, loading, fetches, version, confirmed, sequence>>

ServeAction(a) ==
    /\ acting[a] = "asked" /\ version' = version + 1
    /\ acting' = [acting EXCEPT ![a] = "served"]
    /\ UNCHANGED <<page, tab, shown, loading, failed, fetches, confirmed, sequence, made>>

\* Success: a list is loaded again, an account is replaced by the one in the answer.
ActionAnswers(a) ==
    /\ acting[a] = "served" /\ acting' = [acting EXCEPT ![a] = "idle"]
    /\ IF page = "list"
       THEN Request(tab) /\ UNCHANGED <<shown, made>>
       ELSE shown' = [tab |-> tab, version |-> version] /\ UNCHANGED <<fetches, sequence, made>>
    /\ confirmed' = version /\ UNCHANGED <<page, tab, loading, failed, version>>

ActionFails(a) ==
    /\ acting[a] # "idle" /\ acting' = [acting EXCEPT ![a] = "idle"] /\ failed' = TRUE
    /\ UNCHANGED <<page, tab, shown, loading, fetches, version, confirmed, sequence, made>>

AdminNext ==
    \/ \E f \in fetches : Serve(f) \/ Answer(f) \/ FetchFails(f)
    \/ \E t \in Tabs : SwitchTab(t) \/ Search(t)
    \/ \E a \in Actions : Act(a) \/ ServeAction(a) \/ ActionAnswers(a) \/ ActionFails(a)

AdminSpec == AdminInit /\ [][AdminNext]_adminVars

(* What an administrator decides on is current: the account on screen is the one asked for, a     *)
(* dashboard without spinner or error is of the chosen view, and once nothing is in flight and no *)
(* error is shown the data is of the chosen tab and includes every action reported as done, in    *)
(* whichever order the answers came (useAdminList.ts 18-29, AdminAccountsPage.tsx 76-90, AdminAnalyticsPage.tsx   *)
(* 335-360).  A list keeps the other tab's items beside the error when a tab's load fails.        *)
ShownIsCurrent ==
    shown # Nothing =>
        /\ page = "accounts" => shown.tab = tab
        /\ page = "analytics" /\ ~loading /\ ~failed => shown.tab = tab
        /\ fetches = {} /\ ~Busy /\ ~loading /\ ~failed =>
              shown.tab = tab /\ shown.version >= confirmed
=============================================================================
