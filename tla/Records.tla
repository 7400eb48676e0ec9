------------------------------ MODULE Records ------------------------------
(***************************************************************************)
(* What accounts keep in the database: workspaces with members and items,  *)
(* portfolios with holdings, and saved searches. A handler reads its row   *)
(* to decide who may do what and writes in a commit of its own, so another *)
(* request can delete the row in between; a read of a portfolio is two     *)
(* queries. The audit entries that follow are left out: nothing here reads *)
(* them.                                                                   *)
(***************************************************************************)
EXTENDS PositionResolution

CONSTANTS
  People,        \* the emails
  Threads,       \* request threads
  Universes,     \* the sequences of Company nodes the graph may hold
  Books,         \* the holdings files uploaded
  MaxRows,       \* bound: identifiers handed out
  MaxBooks       \* bound: portfolios created

ASSUME RecordsAssumption ==
  /\ Threads # {} /\ IsFiniteSet(Threads) /\ MaxRows \in Nat /\ MaxBooks \in Nat
  /\ \A nodes \in Universes : nodes \in Seq(ToSet(nodes)) /\ \A c \in ToSet(nodes) : c.key # "none"
  /\ \A book \in Books : book \in Seq(ToSet(book))

VARIABLES
  workspaces,    \* rows of workspaces
  members,       \* rows of workspace_members
  items,         \* rows of workspace_items
  portfolios,    \* rows of portfolios
  holdings,      \* rows of holdings
  searches,      \* rows of saved_searches
  universe,      \* the Company nodes of the graph being served
  tasks,         \* what each thread is doing
  born,          \* (history) the holdings every portfolio was created with
  deletions,     \* (history) workspaces deleted
  nextId         \* stands for the random identifiers

team == <<workspaces, members, items, deletions>>
own == <<portfolios, holdings, searches, born, universe>>
recordVars == <<team, own, tasks, nextId>>

Resting == [op |-> "none"]
Does(t, task) == tasks' = [tasks EXCEPT ![t] = task]
Rests(t) == tasks[t].op = "none"

RecordsInit ==
  /\ workspaces = {} /\ members = {} /\ items = {} /\ portfolios = {} /\ holdings = {} /\ searches = {}
  /\ universe \in Universes
  /\ tasks = [t \in Threads |-> Resting]
  /\ born = <<>> /\ deletions = 0 /\ nextId = 1

MembersOf(id) == {m.email : m \in {row \in members : row.workspace = id}}

CanAccess(row, email) == row.owner = email \/ email \in MembersOf(row.id)

GetWorkspace(email) == {row \in workspaces : CanAccess(row, email)}
ListWorkspaces(email) == {row \in workspaces : \E m \in members : m.workspace = row.id /\ m.email = email}

FirstMembers(owner, invited) == {owner} \union invited

CreateWorkspace(owner, invited) ==
  /\ nextId <= MaxRows
  /\ workspaces' = workspaces \union {[id |-> nextId, owner |-> owner]}
  /\ members' = members \union {[workspace |-> nextId, email |-> m] : m \in FirstMembers(owner, invited)}
  /\ nextId' = nextId + 1
  /\ UNCHANGED <<items, deletions, own, tasks>>

AddMemberLook(t, email, row, member) ==
  /\ Rests(t) /\ row \in workspaces /\ row.owner = email /\ member \notin MembersOf(row.id)
  /\ Does(t, [op |-> "member", row |-> [workspace |-> row.id, email |-> member]])
  /\ UNCHANGED <<team, own, nextId>>

\* Members are a set: two additions of one address at once leave it twice in the
\* store, and neither access nor what a deletion removes tells the rows apart.
AddMemberCommit(t) ==
  /\ tasks[t].op = "member"
  /\ members' = members \union {tasks[t].row}
  /\ Does(t, Resting)
  /\ UNCHANGED <<workspaces, items, deletions, own, nextId>>

AddItemLook(t, email, row) ==
  /\ Rests(t) /\ row \in workspaces /\ CanAccess(row, email) /\ nextId <= MaxRows
  /\ Does(t, [op |-> "item", row |-> [id |-> nextId, workspace |-> row.id, author |-> email]])
  /\ nextId' = nextId + 1
  /\ UNCHANGED <<team, own>>

AddItemCommit(t) ==
  /\ tasks[t].op = "item"
  /\ items' = items \union {tasks[t].row}
  /\ Does(t, Resting)
  /\ UNCHANGED <<workspaces, members, deletions, own, nextId>>

DeleteItemLook(t, email, row, item) ==
  /\ Rests(t) /\ row \in workspaces /\ CanAccess(row, email)
  /\ item \in items /\ item.workspace = row.id
  /\ Does(t, [op |-> "remove", row |-> item])
  /\ UNCHANGED <<team, own, nextId>>

DeleteItemCommit(t) ==
  /\ tasks[t].op = "remove"
  /\ items' = items \ {tasks[t].row}
  /\ Does(t, Resting)
  /\ UNCHANGED <<workspaces, members, deletions, own, nextId>>

DeleteWorkspaceLook(t, email, row) ==
  /\ Rests(t) /\ row \in workspaces /\ row.owner = email
  /\ Does(t, [op |-> "close", row |-> row])
  /\ UNCHANGED <<team, own, nextId>>

\* Mutant: the members go, the items stay.
InsideMembers(rows, id) == {row \in rows \intersect members : row.workspace = id}

Inside(rows, id) == {row \in rows : row.workspace = id}

DeleteWorkspaceCommit(t) ==
  LET id == tasks[t].row.id IN
    /\ tasks[t].op = "close"
    /\ workspaces' = workspaces \ {tasks[t].row}
    /\ members' = members \ Inside(members, id)
    /\ items' = items \ Inside(items, id)
    /\ deletions' = deletions + 1
    /\ Does(t, Resting)
    /\ UNCHANGED <<own, nextId>>

WholePortfolio(id, companies) == {[portfolio |-> id, at |-> i, company |-> companies[i]] : i \in DOMAIN companies}

\* A portfolio's row and holdings are one commit.
StorePortfolio(owner, companies) ==
  /\ nextId <= MaxRows /\ Len(born) < MaxBooks
  /\ portfolios' = portfolios \union {[id |-> nextId, owner |-> owner]}
  /\ holdings' = holdings \union WholePortfolio(nextId, companies)
  /\ born' = Append(born, [id |-> nextId, companies |-> companies])
  /\ nextId' = nextId + 1
  /\ UNCHANGED <<team, searches, universe, tasks>>

UploadReport(book) == ResolvePositions(universe, ParseBrokerageCsv(book))

UploadPortfolio(owner, book) == StorePortfolio(owner, HoldingsOf(UploadReport(book)))

\* A portfolio posted with its holdings keeps them as they are.
CreatePortfolio(owner) == \E c \in {universe[i].key : i \in DOMAIN universe} : StorePortfolio(owner, <<c, c>>)

ReadPortfolio(t, email, row) ==
  /\ Rests(t) /\ row \in portfolios /\ row.owner = email
  /\ Does(t, [op |-> "read", row |-> row])
  /\ UNCHANGED <<team, own, nextId>>

HoldingRows(id) == {row \in holdings : row.portfolio = id}

ShowPortfolio(t) ==
  /\ tasks[t].op = "read"
  /\ Does(t, [op |-> "shown", row |-> tasks[t].row, rows |-> HoldingRows(tasks[t].row.id)])
  /\ UNCHANGED <<team, own, nextId>>

Answered(t) ==
  /\ tasks[t].op = "shown"
  /\ Does(t, Resting)
  /\ UNCHANGED <<team, own, nextId>>

DeletePortfolioLook(t, email, row) ==
  /\ Rests(t) /\ row \in portfolios /\ row.owner = email
  /\ Does(t, [op |-> "sell", row |-> row])
  /\ UNCHANGED <<team, own, nextId>>

Cascade(id) == HoldingRows(id)

DeletePortfolioCommit(t) ==
  /\ tasks[t].op = "sell"
  /\ portfolios' = portfolios \ {tasks[t].row}
  /\ holdings' = holdings \ Cascade(tasks[t].row.id)
  /\ Does(t, Resting)
  /\ UNCHANGED <<team, searches, born, universe, nextId>>

CreateSearch(email) ==
  /\ nextId <= MaxRows
  /\ searches' = searches \union {[id |-> nextId, owner |-> email]}
  /\ nextId' = nextId + 1
  /\ UNCHANGED <<team, portfolios, holdings, born, universe, tasks>>

DeleteSearch(email, row) ==
  /\ row \in searches /\ row.owner = email
  /\ searches' = searches \ {row}
  /\ UNCHANGED <<team, portfolios, holdings, born, universe, tasks, nextId>>

TeamNext ==
  \/ \E e \in People, invited \in SUBSET People : CreateWorkspace(e, invited)
  \/ \E t \in Threads :
       \/ AddMemberCommit(t) \/ AddItemCommit(t) \/ DeleteItemCommit(t) \/ DeleteWorkspaceCommit(t)
       \/ \E e \in People, row \in workspaces :
            \/ AddItemLook(t, e, row) \/ DeleteWorkspaceLook(t, e, row)
            \/ \E m \in People : AddMemberLook(t, e, row, m)
            \/ \E item \in items : DeleteItemLook(t, e, row, item)

OwnNext ==
  \/ \E e \in People : \/ CreatePortfolio(e) \/ CreateSearch(e)
                       \/ \E book \in Books : UploadPortfolio(e, book)
                       \/ \E row \in searches : DeleteSearch(e, row)
  \/ \E t \in Threads :
       \/ ShowPortfolio(t) \/ Answered(t) \/ DeletePortfolioCommit(t)
       \/ \E e \in People, row \in portfolios : ReadPortfolio(t, e, row) \/ DeletePortfolioLook(t, e, row)

-----------------------------------------------------------------------------

RecordsTypeOK ==
  /\ \A row \in workspaces \union portfolios \union searches : row.id < nextId /\ row.owner \in People
  /\ \A row \in items : row.author \in People
  /\ \A row \in holdings : row.portfolio < nextId

\* The list of workspaces, which asks for memberships only, has the very
\* workspaces the account can open.
ListAgreesWithGet == \A e \in People : ListWorkspaces(e) = GetWorkspace(e)

\* Whoever wrote an item of a workspace can still open it.
AuthorsHaveAccess ==
  \A row \in workspaces, item \in items : item.workspace = row.id => CanAccess(row, item.author)

Gone(row) == \A w \in workspaces : w.id # row.workspace

\* An item or a member added while its workspace is deleted stays behind, at
\* most one for every other thread at every deletion.
OrphansBounded ==
  LET gone(rows) == {row \in rows : Gone(row)}
  IN Cardinality(gone(items)) + Cardinality(gone(members)) <= deletions * (Cardinality(Threads) - 1)

\* Workspaces, as requests that overlap leave them.
WorkspacesSound == RecordsTypeOK /\ ListAgreesWithGet /\ AuthorsHaveAccess /\ OrphansBounded

\* A portfolio deleted while it is read shows no holdings, never some of them.
NeverAPartOfAPortfolio ==
  \A t \in Threads :
    tasks[t].op = "shown" =>
      LET rows == tasks[t].rows
          created == CHOOSE b \in ToSet(born) : b.id = tasks[t].row.id
      IN rows = {} \/ rows = WholePortfolio(created.id, created.companies)

\* An upload holds every company its rows resolved to, each once; two share
\* classes of one issuer are one holding.
UploadHoldsTheResolved ==
  universe # <<>> => \A book \in Books : \A report \in {UploadReport(book)} :
    LET held == HoldingsOf(report)
    IN /\ ToSet(held) = {report.positions[i].company : i \in DOMAIN report.positions} \ {"none"}
       /\ IsInjective(held)

\* A row goes to a company that carries the identifier it was matched by, and
\* to one that carries the ticker exactly if any does; a name, to the best.
MatchesAreEvident ==
  universe # <<>> => \A book \in Books : \A i \in DOMAIN ParseBrokerageCsv(book) :
    \A row \in {ParseBrokerageCsv(book)[i]}, match \in {UploadReport(book).positions[i]} :
    LET matched == {c \in ToSet(universe) : c.key = match.company}
    IN /\ match.method = "ticker" => \E c \in matched : \E t \in c.tickers : Fold(t) = Fold(row.ticker)
       /\ row.ticker # Absent /\ (\E c \in ToSet(universe) : row.ticker \in c.tickers) =>
            \E c \in matched : row.ticker \in c.tickers
       /\ match.method = "isin" => \E c \in matched : row.isin \in c.isins
       /\ match.method = "sedol" => \E c \in matched : row.sedol \in c.sedols
       /\ match.method = "name" =>
            \E c \in matched : \A d \in ToSet(universe) : OrgScore(row.name, d.name) <= OrgScore(row.name, c.name)

\* Portfolios hold what their upload named, and are read whole or gone.
PortfoliosSound == NeverAPartOfAPortfolio /\ UploadHoldsTheResolved /\ MatchesAreEvident
=============================================================================
