------------------------------- MODULE Directory -------------------------------
(***************************************************************************)
(* Organisations, teams, projects, users and keys, the five tables behind  *)
(* the six-layer budgets (internal/auth/auth.go, schema.sql), the portal's *)
(* admin handlers that write them (internal/portal/portal.go), and the two *)
(* readers: ChainOfUser, one query, and OrgTree, five queries one after    *)
(* the other that admin calls may interleave and any of which may fail.    *)
(***************************************************************************)
EXTENDS Integers, Sequences, FiniteSetsExt, Functions

CONSTANTS
    Quotas,           \* the limits an admin sets; 0 is unlimited
    FirstTables,      \* the tables when the view begins
    MaxRows,          \* bound on the rows of a table
    MaxWrites,        \* bound on the admin calls
    MaxCuts           \* bound on the queries of OrgTree that fail or break off

Layers == <<"org", "team", "project", "user", "key">>
ParentLayer == [team |-> "org", project |-> "team", user |-> "project", key |-> "user"]

\* Tables as schema.sql and the statements below leave them: a parent is a row
\* (REFERENCES), and only projects and users may be without one.
TableRows == [parent : Nat, limit : Quotas \cup {0}]

ForeignKeys(d) ==
    /\ d \in [Range(Layers) -> Seq(TableRows)]
    /\ \A layer \in DOMAIN ParentLayer : \A id \in DOMAIN d[layer] :
          \/ d[layer][id].parent \in DOMAIN d[ParentLayer[layer]]
          \/ d[layer][id].parent = 0 /\ layer \in {"project", "user"}

ASSUME DirectoryAssumption ==
    /\ \A d \in FirstTables : ForeignKeys(d)
    /\ MaxRows \in Nat /\ MaxWrites \in Nat /\ MaxCuts \in Nat

VARIABLES
    tables,           \* a row's id is its place; parent 0 is NULL
    view,             \* OrgTree: the tables read so far, in the code's order
    writes,           \* admin calls so far
    quiet,            \* history: no write since OrgTree began
    cut               \* history: the tables OrgTree did not read to the end

dirVars == <<tables, view, writes, quiet, cut>>

Ids(layer) == DOMAIN tables[layer]

-----------------------------------------------------------------------------
(* Statements of the auth service.  A parent that does not exist breaks    *)
(* the foreign key and the statement fails; an UPDATE whose WHERE matches  *)
(* no row succeeds and changes nothing.                                    *)

Written(layer, rows) ==
    /\ writes < MaxWrites
    /\ Len(rows) <= MaxRows
    /\ tables' = [tables EXCEPT ![layer] = rows]
    /\ writes' = writes + 1
    /\ quiet' = FALSE
    /\ UNCHANGED <<view, cut>>

Insert(layer, parent, q) ==
    Written(layer, Append(tables[layer], [parent |-> parent, limit |-> q]))

UpdateLimit(layer, id, q) ==
    id \in Ids(layer) /\ Written(layer, [tables[layer] EXCEPT ![id].limit = q])

UpdateParent(layer, id, parent) ==
    /\ id \in Ids(layer) /\ parent \in Ids(ParentLayer[layer])
    /\ Written(layer, [tables[layer] EXCEPT ![id].parent = parent])

(* Handlers of the portal.  Projects and users are created detached, and   *)
(* no handler detaches them again.                                         *)

CreateOrg(q) == Insert("org", 0, q)
CreateTeam(o, q) == o \in Ids("org") /\ Insert("team", o, q)
CreateProject(q) == Insert("project", 0, q)
RegisterUser == Insert("user", 0, 0)
CreateUserKey(u, q) == u \in Ids("user") /\ Insert("key", u, q)

SetOrgLimits(o, q) == UpdateLimit("org", o, q)
SetTeamLimits(t, q) == UpdateLimit("team", t, q)
SetProjectLimits(p, q) == UpdateLimit("project", p, q)
SetUserLimits(u, q) == UpdateLimit("user", u, q)
SetKeyLimits(k, q) == UpdateLimit("key", k, q)

SetProjectTeam(p, t) == UpdateParent("project", p, t)
AssignUserProject(u, p) == UpdateParent("user", u, p)

-----------------------------------------------------------------------------
(* Readers *)

RowOf(d, layer, id) == IF id \in DOMAIN d[layer] THEN d[layer][id] ELSE [parent |-> 0, limit |-> 0]

\* Three LEFT JOINs, COALESCEd to 0.
Chain(d, u) ==
    LET user == RowOf(d, "user", u)
        project == RowOf(d, "project", user.parent)
        team == RowOf(d, "team", project.parent)
        org == RowOf(d, "org", team.parent)
    IN <<user.parent, project.parent, team.parent,
         user.limit, project.limit, team.limit, org.limit>>

ChainOfUser(u) == Chain(tables, u)

\* OrgTree runs its next query and reads the first n of its rows (ORDER BY id).
\* A failed query of teams, projects, users or keys is skipped (n = 0), and
\* rows.Err is not asked of any of the five, so that an iteration that breaks
\* off passes for the end of the table.  (When the query of orgs fails there is
\* an error and no tree: the view stays as it is.)
ReadTable(n) ==
    LET layer == Layers[Len(view) + 1]
    IN /\ Len(view) < Len(Layers)
       /\ n \in 0 .. Len(tables[layer])
       /\ view' = Append(view, SubSeq(tables[layer], 1, n))
       /\ cut' = IF n < Len(tables[layer]) THEN cut \cup {layer} ELSE cut
       /\ Cardinality(cut') <= MaxCuts
       /\ quiet' = (quiet \/ view = <<>>)
       /\ UNCHANGED <<tables, writes>>

\* rows.Scan of a NULL parent into an int64 fails; the code "continue"s, but
\* the driver has closed the rows, so the rest of them are not seen.
Scanned(rows) ==
    {id \in DOMAIN rows : \A before \in 1 .. id : rows[before].parent # 0}

TeamsOfOrg(o) == {t \in Scanned(view[2]) : view[2][t].parent = o}

PlacedTeams == {t \in Scanned(view[2]) : view[2][t].parent \in DOMAIN view[1]}

\* teamIdx: how many teams its org had when a team was appended (ORDER BY id).
TeamIdx(t) == Cardinality({s \in TeamsOfOrg(view[2][t].parent) : s < t})

\* orgs[o].Teams[n], or nothing when n is past the end.
TeamAt(o, n) == {t \in TeamsOfOrg(o) : TeamIdx(t) = n}

\* Mutant of OrgOfProject: the id at the team's place is not compared.
OrgAtPlace(p) ==
    LET t == view[3][p].parent IN {o \in DOMAIN view[1] : TeamAt(o, TeamIdx(t)) # {}}

\* Mutant of OrgOfProject: a team's place is counted after it was appended.
OrgPastPlace(p) ==
    LET t == view[3][p].parent IN {o \in DOMAIN view[1] : t \in TeamAt(o, TeamIdx(t) + 1)}

\* The orgs that have the project's team at its place.
OrgOfProject(p) ==
    LET t == view[3][p].parent IN {o \in DOMAIN view[1] : t \in TeamAt(o, TeamIdx(t))}

\* A project goes under the team at that place of the first such org.
ProjectNodes ==
    {n \in Scanned(view[3]) \X PlacedTeams \X DOMAIN view[1] :
        /\ view[3][n[1]].parent \in PlacedTeams
        /\ OrgOfProject(n[1]) # {}
        /\ n[3] = Min(OrgOfProject(n[1]))
        /\ n[2] \in TeamAt(n[3], TeamIdx(view[3][n[1]].parent))}

\* A user goes under every project node with its project's id, a key under
\* every user node with its user's id; each node shows its row's limit.
UserNodes ==
    {n \in Scanned(view[4]) \X ProjectNodes : view[4][n[1]].parent = n[2][1]}

OrgTree ==
    {<<n[1], <<n[2][1], n[2][2], n[2][3], view[4][n[1]].limit, view[3][n[2][1]].limit,
               view[2][n[2][2]].limit, view[1][n[2][3]].limit>>,
       {k \in Scanned(view[5]) : view[5][k].parent = n[1]}>> : n \in UserNodes}

-----------------------------------------------------------------------------
DirInit ==
    /\ tables \in FirstTables
    /\ view = <<>>
    /\ writes = 0
    /\ quiet = FALSE
    /\ cut = {}

DirNext ==
    \/ \E q \in Quotas : CreateOrg(q) \/ CreateProject(q)
    \/ RegisterUser
    \/ \E id \in 1 .. MaxRows, q \in Quotas :
          \/ CreateTeam(id, q) \/ CreateUserKey(id, q)
          \/ SetOrgLimits(id, q) \/ SetTeamLimits(id, q) \/ SetProjectLimits(id, q)
          \/ SetUserLimits(id, q) \/ SetKeyLimits(id, q)
    \/ \E id, parent \in 1 .. MaxRows :
          SetProjectTeam(id, parent) \/ AssignUserProject(id, parent)
    \/ \E n \in 0 .. MaxRows : ReadTable(n)

DirSpec == DirInit /\ [][DirNext]_dirVars

-----------------------------------------------------------------------------
(* Properties *)

\* The five tables as OrgTree read them, each at another time.
Seen == [org |-> view[1], team |-> view[2], project |-> view[3],
         user |-> view[4], key |-> view[5]]

\* The tree an admin sees and the chain the limiter enforces agree.  Whatever
\* admin calls its five queries interleave with and whichever of them break
\* off, OrgTree shows nobody twice, and where it shows a user it shows the
\* project, team and organisation, and the limits of all four, that the joins
\* of ChainOfUser yield over the tables as they were read.  Without an admin
\* call meanwhile that is what ChainOfUser returns, and the keys are the user's
\* own: all of them, unless the query of keys failed.
TreeAgreesWithChain ==
    Len(view) = Len(Layers) =>
        /\ \A m, n \in OrgTree : m[1] = n[1] => m = n
        /\ \A n \in OrgTree : n[2] = Chain(Seen, n[1])
        /\ quiet => \A n \in OrgTree :
              LET own == {k \in Ids("key") : tables["key"][k].parent = n[1]}
              IN /\ n[2] = ChainOfUser(n[1])
                 /\ n[3] \subseteq own
                 /\ "key" \notin cut => n[3] = own

\* When every project and user is attached, no admin call comes between the
\* five queries and none of the first four fails or breaks off, OrgTree shows
\* every user.  (A failed query leaves users out and no error tells.)
AttachedTreeIsFull ==
    /\ Len(view) = Len(Layers) /\ quiet /\ cut \subseteq {"key"}
    /\ \A layer \in {"project", "user"} : \A id \in Ids(layer) :
          tables[layer][id].parent # 0
    => {n[1] : n \in OrgTree} = Ids("user")
=============================================================================
