-------------------------------- MODULE Login ---------------------------------
(***************************************************************************)
(* How a program of the same user gets into a running gdb-wui: the run     *)
(* file that says where it is (internal/runfile), the links it mints and   *)
(* the cookie a link is good for, once (internal/httpapi/auth.go,          *)
(* server.go), for the MCP bridge (mcp/session.go: connect, redeem) and    *)
(* for gdb-wui -print-url (cmd/gdb-wui/main.go).                           *)
(*                                                                         *)
(* One address: a server on it may end, cleanly or not, and another take   *)
(* its place.                                                              *)
(***************************************************************************)
EXTENDS Naturals

CONSTANTS
    Joiners,    \* processes that look for the server
    Printers,   \* those of them that print the link for a person to open
    Owner,      \* the browser the server opens itself
    MaxServers, \* bound: servers started
    MaxLinks    \* bound: links minted

ASSUME LinkBoundsAssumption == {MaxServers, MaxLinks} \subseteq Nat

VARIABLES
    host,       \* the last one started, and whether it runs
    file,       \* the run file: none, the server it is of, and whether it is written
    boot,       \* tokens: the link, whose it is, whether it is used or too old
    at,         \* where a joiner is: see the actions
    held,       \* the entry or the link it holds
    opened,     \* history: the cookies given for each link
    expired,    \* history: links that were too old
    linkOf      \* history: the server of each link

loginVars == <<host, file, boot, at, held, opened, expired, linkOf>>

People == Joiners \cup {Owner}
NoFile == [of |-> 0, written |-> FALSE]
Links == 1..MaxLinks

LoginInit ==
    /\ host = [gen |-> 0, up |-> FALSE]
    /\ file = NoFile
    /\ boot = [id |-> 0, used |-> FALSE, old |-> FALSE]
    /\ at = [p \in People |-> "idle"]
    /\ held = [p \in People |-> 0]
    /\ opened = [l \in Links |-> 0]
    /\ expired = {}
    /\ linkOf = [l \in Links |-> 0]

-----------------------------------------------------------------------------
(* The server.                                                             *)

\* Mutant: a link minted after one was used counts as used.
IssueUnreset ==
    /\ boot.id < MaxLinks
    /\ boot' = [boot EXCEPT !.id = @ + 1, !.old = FALSE]
    /\ linkOf' = [linkOf EXCEPT ![boot.id + 1] = host'.gen]

\* newTokens, newBootstrap: a fresh link; the one before it is worth nothing.
Issue ==
    /\ boot.id < MaxLinks
    /\ boot' = [id |-> boot.id + 1, used |-> FALSE, old |-> FALSE]
    /\ linkOf' = [linkOf EXCEPT ![boot.id + 1] = host'.gen]

\* run: tokens, and the run file, first empty; the link goes to a browser.
Start ==
    /\ ~host.up /\ host.gen < MaxServers
    /\ host' = [gen |-> host.gen + 1, up |-> TRUE]
    /\ Issue
    /\ file' = [of |-> host'.gen, written |-> FALSE]
    /\ at' = [at EXCEPT ![Owner] = "linked"]
    /\ held' = [held EXCEPT ![Owner] = boot'.id]
    /\ UNCHANGED <<opened, expired>>

\* runfile.Write, the rest; into a file that may have been removed meanwhile.
WriteEntry ==
    /\ host.up
    /\ file = [of |-> host.gen, written |-> FALSE]
    /\ file' = [file EXCEPT !.written = TRUE]
    /\ UNCHANGED <<host, boot, at, held, opened, expired, linkOf>>

\* It shuts down and removes its file; or is killed and cannot.
Stop ==
    /\ host.up
    /\ host' = [host EXCEPT !.up = FALSE]
    /\ file' \in {NoFile, file}
    /\ UNCHANGED <<boot, at, held, opened, expired, linkOf>>

\* bootstrapTTL.
Expire ==
    /\ boot.id > 0 /\ ~boot.old
    /\ boot' = [boot EXCEPT !.old = TRUE]
    /\ expired' = expired \cup {boot.id}
    /\ UNCHANGED <<host, file, at, held, opened, linkOf>>

-----------------------------------------------------------------------------
(* A joiner.                                                               *)

Moves(j, to, what) ==
    /\ at' = [at EXCEPT ![j] = to]
    /\ held' = [held EXCEPT ![j] = what]

\* runfile.Find, List: an entry of a process that lives; any other is removed.
Find(j) ==
    /\ at[j] = "idle"
    /\ \/ file.of = 0 /\ Moves(j, "no server", 0)
       \/ file.of # 0 /\ (~file.written \/ ~host.up \/ host.gen # file.of) /\ Moves(j, "stale", 0)
       \/ file.written /\ host.up /\ host.gen = file.of /\ Moves(j, "found", file.of)
    /\ UNCHANGED <<host, file, boot, opened, expired, linkOf>>

\* The removal of what was read, whatever is there by now.
RemoveStale(j) ==
    /\ at[j] = "stale"
    /\ file' = NoFile
    /\ Moves(j, "no server", 0)
    /\ UNCHANGED <<host, boot, opened, expired, linkOf>>

\* handleMint: a link for the server's own secret.
Mint(j) ==
    /\ at[j] = "found" /\ host.up
    /\ UNCHANGED host
    /\ IF held[j] = host.gen
       THEN Issue /\ Moves(j, "linked", boot'.id)
       ELSE Moves(j, "refused", 0) /\ UNCHANGED <<boot, linkOf>>
    /\ UNCHANGED <<file, opened, expired>>

\* Nobody answers in time, though a link may have been minted; a printer takes
\* the file for stale.
MintFails(j) ==
    /\ at[j] = "found"
    /\ UNCHANGED host
    /\ \/ UNCHANGED <<boot, linkOf>>
       \/ host.up /\ held[j] = host.gen /\ Issue
    /\ Moves(j, "no server", 0)
    /\ file' = IF j \in Printers THEN NoFile ELSE file
    /\ UNCHANGED <<opened, expired>>

\* redeemBootstrap.
Redeems(link) == host.up /\ link = boot.id /\ ~boot.used /\ ~boot.old

\* A link is opened: a cookie for it, and it is used; or none.  A browser may
\* open it again.
Open(p) ==
    /\ at[p] \in IF p \in Printers \cup {Owner} THEN {"linked", "in"} ELSE {"linked"}
    /\ opened[held[p]] < 2
    /\ IF Redeems(held[p])
       THEN /\ boot' = [boot EXCEPT !.used = TRUE]
            /\ opened' = [opened EXCEPT ![held[p]] = @ + 1]
            /\ at' = [at EXCEPT ![p] = "in"]
       ELSE /\ at' = [at EXCEPT ![p] = IF @ = "in" THEN @ ELSE "turned away"]
            /\ UNCHANGED <<boot, opened>>
    /\ UNCHANGED <<host, file, held, expired, linkOf>>

\* It asks again another time.
Again(j) ==
    /\ at[j] \in {"in", "no server", "refused", "turned away"}
    /\ Moves(j, "idle", 0)
    /\ UNCHANGED <<host, file, boot, opened, expired, linkOf>>

LoginNext ==
    \/ Start \/ WriteEntry \/ Stop \/ Expire
    \/ \E j \in Joiners : Find(j) \/ RemoveStale(j) \/ Mint(j) \/ MintFails(j) \/ Again(j)
    \/ \E p \in People : Open(p)

LoginSpec == LoginInit /\ [][LoginNext]_loginVars

-----------------------------------------------------------------------------
(* Properties.                                                             *)

\* A link is good once, and good until then: it gives one cookie, and who is
\* turned away holds one that was used, became too old or was replaced, or
\* whose server is gone (auth.go: redeemBootstrap, newBootstrap, through any
\* servers, mints and openings).
LinkGoodOnce ==
    /\ \A l \in Links : opened[l] <= 1
    /\ \A p \in People : at[p] = "turned away" =>
            LET l == held[p]
            IN  \/ opened[l] > 0 \/ l \in expired \/ l < boot.id
                \/ ~host.up \/ host.gen # linkOf[l]
===============================================================================
