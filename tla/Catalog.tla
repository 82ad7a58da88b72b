-------------------------------- MODULE Catalog --------------------------------
(***************************************************************************)
(* What a model name means: the alias table and its cache                  *)
(* (services/mapping.py), the rows of the channels (services/channels.py), *)
(* the channels that may serve a request (services/routing.py), and the    *)
(* lists of models shown to clients (api/gateway.py).                      *)
(*                                                                         *)
(* An edit of the alias table reads rows, commits, reads the whole table   *)
(* back and replaces the cache, with awaits between all four; the edits of *)
(* several administrators interleave.  Names and globs are members of sets *)
(* that say what they match.                                               *)
(***************************************************************************)
EXTENDS Integers, Sequences, FiniteSets, FiniteSetsExt, SequencesExt, Functions

CONSTANTS
    Model,        \* names of models, exact aliases among them
    Glob,         \* aliases and whitelist entries with * ? or [
    Matches,      \* names a glob matches, itself one of them
    Size,         \* length of a glob
    Channel,
    ChannelRows,  \* rows a channel may be given
    Provider,
    Capabilities, \* what the protocol of a provider can do
    Entries,      \* alias rows an administrator may write
    FirstTables,  \* alias tables the gateway may start with
    Fallback,     \* routing.wildcard_alias, or Unset
    Unset,        \* a column or setting without a value
    Admin,
    MaxCommits    \* commits to the alias table the model allows

Alias == Model \cup Glob
Row == [alias : Alias, upstream : Model, channel : Channel \cup {Unset},
        provider : Provider \cup {Unset}, enabled : BOOLEAN]

ASSUME CatalogAssumption ==
    /\ Model \cap Glob = {}
    /\ \A g \in Glob : g \in Matches[g] /\ Matches[g] \subseteq Alias /\ Size[g] \in Nat
    /\ Entries \subseteq Row
    /\ \A t \in FirstTables :
           /\ t \in Seq(Entries)
           /\ \A i, j \in DOMAIN t : t[i].alias = t[j].alias => i = j
    /\ Fallback \in Model \cup {Unset}
    /\ MaxCommits \in Nat

VARIABLES
    rows,      \* the alias table, by id
    commits,   \* commits to it so far: its version
    cache,     \* the entries lookups use, with the version they were read at
    channels,  \* rows of the channels that exist
    edit,      \* what each administrator's handler is doing
    newest     \* (history) newest version the cache has held

catalogVars == <<rows, commits, cache, channels, edit, newest>>

NoRow == [alias |-> Unset, upstream |-> Unset, channel |-> Unset, provider |-> Unset,
          enabled |-> FALSE]
Idle == [pc |-> "idle", op |-> "none", id |-> 0, row |-> NoRow, cols |-> {},
         todo |-> <<>>, base |-> 0, read |-> <<>>, at |-> 0]

Columns == {"alias", "upstream", "channel", "provider", "enabled"}
Versions == 0..MaxCommits

CatalogTypes ==
    /\ DOMAIN rows \subseteq Nat \ {0} /\ \A i \in DOMAIN rows : rows[i] \in Row
    /\ commits \in Versions
    /\ cache.at \in Versions
    /\ DOMAIN channels \subseteq Channel
    /\ \A c \in DOMAIN channels : channels[c] \in ChannelRows
    /\ \A a \in Admin :
          /\ edit[a].pc \in {"idle", "loaded", "stored", "read"}
          /\ edit[a].cols \subseteq Columns
          /\ edit[a].base \in Versions /\ edit[a].at \in Versions
    /\ newest \in Versions
-----------------------------------------------------------------------------
(***************************************************************************)
(* The cache: refresh and resolve.                                         *)
(***************************************************************************)
Enabled(table, kind) == {i \in DOMAIN table : table[i].enabled /\ table[i].alias \in kind}

\* Exact aliases by name; globs, the longest first and then as they were read.
Build(table) ==
    [exact |-> [m \in {table[i].alias : i \in Enabled(table, Model)} |->
                   table[CHOOSE i \in Enabled(table, Model) : table[i].alias = m]],
     globs |-> LET longer(i, j) ==
                      LET n == Size[table[i].alias] k == Size[table[j].alias]
                      IN  n > k \/ (n = k /\ i < j)
                   order == SetToSortSeq(Enabled(table, Glob), longer)
               IN  [n \in DOMAIN order |-> table[order[n]]]]

Resolved(requested, row) ==
    [requested |-> requested, upstream |-> row.upstream, channel |-> row.channel,
     provider |-> row.provider]

Resolve(name) ==
    LET hits == {n \in DOMAIN cache.table.globs : name \in Matches[cache.table.globs[n].alias]}
    IN  IF name \in DOMAIN cache.table.exact THEN Resolved(name, cache.table.exact[name])
        ELSE IF hits # {} THEN Resolved(name, cache.table.globs[Min(hits)])
        ELSE [requested |-> name, upstream |-> IF Fallback = Unset THEN name ELSE Fallback,
              channel |-> Unset, provider |-> Unset]

KnownAliases ==
    DOMAIN cache.table.exact \cup
    {cache.table.globs[n].alias : n \in DOMAIN cache.table.globs}
-----------------------------------------------------------------------------
(***************************************************************************)
(* The channels that may serve a request: Router.plan, its tests on the    *)
(* rows.  Cool-downs and the order are in Relay.                           *)
(***************************************************************************)
Active == {c \in DOMAIN channels : channels[c].active}

\* A channel's own list of capabilities narrows what its protocol can do.
CapabilitiesOf(c) ==
    LET own == channels[c].caps all == Capabilities[channels[c].provider]
    IN  IF own = {} THEN all ELSE all \cap own

Serves(c, name) ==
    \E entry \in channels[c].models :
        name = entry \/ (entry \in Glob /\ name \in Matches[entry])

\* (mutant) the whitelist is held against the upstream's name alone
ServesUpstream(c, res) == channels[c].models = {} \/ Serves(c, res.upstream)

ServesRequest(c, res) ==
    \/ channels[c].models = {}
    \/ Serves(c, res.upstream)
    \/ Serves(c, res.requested)

Candidates(res, required) ==
    {c \in Active :
        /\ res.channel \in {Unset, c}
        /\ res.provider \in {Unset, channels[c].provider}
        /\ ServesRequest(c, res)
        /\ required \subseteq CapabilitiesOf(c)}

(***************************************************************************)
(* /v1/models, and /v1/models/{id}.                                        *)
(***************************************************************************)
\* What the channels that spell a model out in their whitelist can do.
Declared(model) == UNION {CapabilitiesOf(c) : c \in {d \in Active : model \in channels[d].models}}

Listing ==
    {[id |-> a, caps |-> Declared(Resolve(a).upstream)] : a \in KnownAliases}
    \cup {[id |-> m, caps |-> Declared(m)] :
             m \in (UNION {channels[c].models : c \in Active}) \ (Glob \cup KnownAliases)}

Retrieved(id) == UNION {CapabilitiesOf(c) : c \in {d \in Active : ServesRequest(d, Resolve(id))}}
-----------------------------------------------------------------------------
(***************************************************************************)
(* Edits of the alias table.                                               *)
(***************************************************************************)
\* (mutant) ids are given by counting the rows
NewIdCounted(table) == Cardinality(DOMAIN table)

NewId(table) == 1 + Max(DOMAIN table \cup {0})
Taken(table, alias, but) == \E i \in DOMAIN table : i # but /\ table[i].alias = alias

\* The columns an update writes: those it names, where they differ from the row
\* it has loaded.
Differ(old, new) == {col \in Columns : old[col] # new[col]}
Written(old, new, cols) ==
    [col \in Columns |-> IF col \in cols THEN new[col] ELSE old[col]]

Begin(a, op, id, row, cols) ==
    edit' = [edit EXCEPT ![a] = [Idle EXCEPT !.pc = "loaded", !.op = op, !.id = id,
                                            !.row = row, !.cols = cols]]

OpenCreate(a) ==
    /\ edit[a].pc = "idle" /\ commits < MaxCommits
    /\ \E row \in Entries :
          ~Taken(rows, row.alias, 0) /\ Begin(a, "create", 0, row, Columns)
    /\ UNCHANGED <<rows, commits, cache, channels, newest>>

OpenUpdate(a) ==
    /\ edit[a].pc = "idle" /\ commits < MaxCommits
    /\ \E id \in DOMAIN rows, row \in Entries :
          /\ ~Taken(rows, row.alias, id)
          /\ Begin(a, "update", id, row, Differ(rows[id], row))
    /\ UNCHANGED <<rows, commits, cache, channels, newest>>

OpenDelete(a) ==
    /\ edit[a].pc = "idle" /\ commits < MaxCommits
    /\ \E id \in DOMAIN rows : Begin(a, "delete", id, NoRow, {})
    /\ UNCHANGED <<rows, commits, cache, channels, newest>>

\* An import of one row.  It lists the ids it is to replace, deletes them one
\* after the other as OpenDelete does, each with its commit and its refresh, and
\* then writes: an existing row gets its upstream, and what the entry names of
\* the channel and the provider.
ImportCols(row) ==
    {"upstream"} \cup (IF row.channel # Unset THEN {"channel"} ELSE {}) \cup {"provider"}

ImportEntry(e, table) ==
    LET ids == {i \in DOMAIN table : table[i].alias = e.row.alias}
    IN  IF ids = {} THEN [e EXCEPT !.op = "create", !.id = 0, !.cols = Columns]
        ELSE LET id == Min(ids)
             IN  [e EXCEPT !.op = "merge", !.id = id,
                    !.cols = Differ(table[id], e.row) \cap ImportCols(e.row)]

OpenImport(a) ==
    /\ edit[a].pc = "idle" /\ commits < MaxCommits
    /\ \E row \in Entries, replace \in BOOLEAN :
          /\ row.enabled
          /\ LET ids == SetToSortSeq(DOMAIN rows, <)
                 e == [Idle EXCEPT !.pc = "loaded", !.row = row]
             IN  edit' = [edit EXCEPT ![a] =
                   IF replace /\ ids # <<>>
                   THEN [e EXCEPT !.op = "clear", !.id = Head(ids), !.todo = Tail(ids)]
                   ELSE ImportEntry(e, rows)]
    /\ UNCHANGED <<rows, commits, cache, channels, newest>>

\* (mutant) nobody but a creation reads the table back
AfterCommitCreate(e) ==
    [e EXCEPT !.pc = IF e.op = "create" THEN "stored" ELSE "idle",
              !.base = commits + 1, !.id = IF e.op = "create" THEN NewId(rows) ELSE e.id]

AfterCommit(e) ==
    [e EXCEPT !.pc = "stored", !.base = commits + 1,
              !.id = IF e.op = "create" THEN NewId(rows) ELSE e.id]

\* A name that has been taken meanwhile, or a row to change that has gone.
Rejected(e) ==
    \/ "alias" \in e.cols /\ Taken(rows, e.row.alias, e.id)
    \/ e.op = "update" /\ e.id \notin DOMAIN rows
    \/ e.op = "merge" /\ e.id \notin DOMAIN rows /\ e.cols # {}

Apply(e) ==
    CASE e.op = "create" ->
            [i \in DOMAIN rows \cup {NewId(rows)} |->
                IF i = NewId(rows) THEN e.row ELSE rows[i]]
      [] e.op \in {"update", "merge"} ->
            [i \in DOMAIN rows |->
                IF i = e.id THEN Written(rows[i], e.row, e.cols) ELSE rows[i]]
      [] OTHER -> Restrict(rows, DOMAIN rows \ {e.id})

Commit(a) ==
    /\ edit[a].pc = "loaded" /\ commits < MaxCommits /\ ~Rejected(edit[a])
    /\ rows' = Apply(edit[a])
    /\ commits' = commits + 1
    /\ edit' = [edit EXCEPT ![a] = AfterCommit(edit[a])]
    /\ UNCHANGED <<cache, channels, newest>>

CommitFails(a) ==
    /\ edit[a].pc = "loaded" /\ Rejected(edit[a])
    /\ edit' = [edit EXCEPT ![a] = Idle]
    /\ UNCHANGED <<rows, commits, cache, channels, newest>>

ReadBack(e) == [e EXCEPT !.pc = "read", !.read = rows, !.at = commits]

\* What was written is loaded again before the table is: it may have gone.
Gone(e) == e.op \in {"create", "update"} /\ e.id \notin DOMAIN rows

Select(a) ==
    /\ edit[a].pc = "stored"
    /\ edit' = [edit EXCEPT ![a] = IF Gone(edit[a]) THEN Idle ELSE ReadBack(edit[a])]
    /\ UNCHANGED <<rows, commits, cache, channels, newest>>

\* The cache is replaced, and the handler returns, unless rows are left to
\* delete before an import: one that has gone meanwhile ends the import there.
\* (An import waits once more, for the number of rows it answers with; no state
\* depends on it, and it is left out.)
AfterFill(e) ==
    CASE e.op # "clear" -> Idle
      [] e.op = "clear" /\ e.todo = <<>> -> ImportEntry([e EXCEPT !.pc = "loaded"], rows)
      [] OTHER -> IF Head(e.todo) \notin DOMAIN rows THEN Idle
                  ELSE [e EXCEPT !.pc = "loaded", !.id = Head(e.todo), !.todo = Tail(@)]

\* (mutant) the refresh of another handler under way is thought to be enough
FillOnce(a) ==
    LET e == edit[a] IN
    /\ e.pc = "read"
    /\ IF \E b \in Admin \ {a} : edit[b].pc = "read" THEN UNCHANGED <<cache, newest>>
       ELSE /\ cache' = [table |-> Build(e.read), at |-> e.at]
            /\ newest' = IF e.at > newest THEN e.at ELSE newest
    /\ edit' = [edit EXCEPT ![a] = AfterFill(e)]
    /\ UNCHANGED <<rows, commits, channels>>

Fill(a) ==
    LET e == edit[a] IN
    /\ e.pc = "read"
    /\ cache' = [table |-> Build(e.read), at |-> e.at]
    /\ newest' = IF e.at > newest THEN e.at ELSE newest
    /\ edit' = [edit EXCEPT ![a] = AfterFill(e)]
    /\ UNCHANGED <<rows, commits, channels>>
-----------------------------------------------------------------------------
(***************************************************************************)
(* Edits of the channels.  Each is one step: it reads and writes its own   *)
(* row only, and columns that two edits write together could have been     *)
(* written by one after the other.                                         *)
(***************************************************************************)
\* Capabilities named are held against the protocol; a new protocol alone leaves
\* those of the old one.
SaveChannel(c) ==
    /\ \E row \in ChannelRows :
          /\ \/ row.caps = IF c \in DOMAIN channels THEN channels[c].caps ELSE {}
             \/ row.caps # {} /\ row.caps \subseteq Capabilities[row.provider]
          /\ channels' = [d \in DOMAIN channels \cup {c} |-> IF d = c THEN row ELSE channels[d]]
    /\ UNCHANGED <<rows, commits, cache, edit, newest>>

\* Aliases bound to the channel stay.
DeleteChannel(c) ==
    /\ c \in DOMAIN channels
    /\ channels' = Restrict(channels, DOMAIN channels \ {c})
    /\ UNCHANGED <<rows, commits, cache, edit, newest>>
-----------------------------------------------------------------------------
\* The cache is read once before the gateway serves.
CatalogInit ==
    /\ rows \in FirstTables
    /\ commits = 0
    /\ cache = [table |-> Build(rows), at |-> 0]
    /\ \E there \in SUBSET Channel : channels \in [there -> {r \in ChannelRows : r.caps = {}}]
    /\ edit = [a \in Admin |-> Idle]
    /\ newest = 0

CatalogNext ==
    \/ \E a \in Admin : \/ OpenCreate(a) \/ OpenUpdate(a) \/ OpenDelete(a) \/ OpenImport(a)
                        \/ Commit(a) \/ CommitFails(a) \/ Select(a) \/ Fill(a)
    \/ \E c \in Channel : SaveChannel(c) \/ DeleteChannel(c)

CatalogSpec == CatalogInit /\ [][CatalogNext]_catalogVars
-----------------------------------------------------------------------------
(***************************************************************************)
(* Properties.                                                             *)
(***************************************************************************)
\* When the refresh of an edit is over, lookups use the table as it was after
\* its commit or later, whatever other edits are under way (refresh).  It says
\* nothing of a moment later: the refresh of another edit that was overtaken may
\* then put an older table back.
OwnEditSeen ==
    [][\A a \in Admin :
          edit[a].pc = "read" /\ edit'[a].pc # "read" => cache'.at >= edit[a].base]_catalogVars

\* Once no edit is under way, the last commit has been in the cache, whichever
\* edits failed or were overtaken.  (Two reads may be filled in the wrong order,
\* and the older then stays.)
LastCommitCached == (\A a \in Admin : edit[a].pc = "idle") => newest = commits

\* A model is listed with a capability only if a request for it that needs the
\* capability has a channel, unless an alias ties it to a channel or a protocol;
\* and what is listed is also what a lookup of that one model shows (list_models,
\* retrieve_model, plan).
ListingTrue ==
    \A l \in Listing :
        /\ l.caps \subseteq Retrieved(l.id)
        /\ LET res == Resolve(l.id)
           IN  res.channel = Unset /\ res.provider = Unset =>
                  \A cap \in l.caps : Candidates(res, {cap}) # {}
=============================================================================
