--------------------------- MODULE LgdoVaultSync ---------------------------
(***************************************************************************)
(* The tool lgdo_vault_sync of GBrain (core/lgdo-vault-sync.ts): it reads  *)
(* the pages a request lists from the vault, imports them into the brain,  *)
(* and, in mode reconcile, deletes the rows whose file is gone.  Requests  *)
(* are served one at a time; the files change while one is served.         *)
(*                                                                         *)
(* A path stands for the source path and for the slug made of it.  The     *)
(* bytes of a file are the page and the revision its front matter names.   *)
(***************************************************************************)
EXTENDS Naturals, FiniteSets

CONSTANTS
  Paths,   \* paths of the vault, and slugs
  None     \* no file, no row, no request in service

VARIABLES
  file,     \* file[q]: page and revision of the file at q
  brain,    \* brain[s]: the row of pages with that slug
  inbox,    \* requests sent and not yet taken up (syncTail)
  serving,  \* the request in service
  stored    \* lgdo_vault_sync_runs, by idempotency key

vars == <<file, brain, inbox, serving, stored>>
brainVars == <<brain, inbox, serving, stored>>

RowsOf(p) == {s \in Paths : brain[s] # None /\ brain[s].page = p}

(* Mutant: the identity is compared, the bytes are not.                    *)
FileOfThePage(e) == file[e.path] # None /\ file[e.path].page = e.page

(* The hash and the identity of the file are those of the manifest.        *)
FileMatches(e) == file[e.path] = [page |-> e.page, rev |-> e.rev]

(* failureMappings: the path wanted and the old row.                       *)
Held(e) ==
  {e.path} \cup UNION {{s, brain[s].src} : s \in RowsOf(e.page)}

(* content_hash of a row: the front matter with its ids is part of it.     *)
Hash(row) == [page |-> row.page, rev |-> row.rev]

(* Of the results only that of an import has a generation and a hash.      *)
Result(e, status, held) ==
  [page |-> e, status |-> status, gen |-> 0, hash |-> None, held |-> held]

Imported(e) ==
  [page |-> e, status |-> "imported", gen |-> brain[e.path].gen,
   hash |-> Hash(brain[e.path]), held |-> {}]

-----------------------------------------------------------------------------
(* A request whose key is stored is answered from there: with the stored   *)
(* result, or with idempotency_conflict.                                   *)
Accept(req) ==
  /\ serving = None
  /\ req \in inbox
  /\ inbox' = inbox \ {req}
  /\ serving' = IF req.key \in DOMAIN stored THEN None
                ELSE [req |-> req, step |-> "page", todo |-> req.expected,
                      page |-> None, from |-> None, held |-> {},
                      results |-> {}, present |-> {}, deleted |-> {}]
  /\ UNCHANGED <<file, brain, stored>>

(* updateSlug fails on the unique key (source_id, slug).                   *)
SlugTaken(e) == RowsOf(e.page) \notin {{}, {e.path}} /\ brain[e.path] # None

Importable(e) ==
  /\ FileMatches(e)
  /\ Cardinality(RowsOf(e.page)) <= 1
  /\ ~SlugTaken(e)

RefusePage(e) ==
  /\ serving # None /\ serving.step = "page" /\ e \in serving.todo
  /\ ~Importable(e)
  /\ serving' = [serving EXCEPT !.todo = @ \ {e},
                   !.results = @ \cup {Result(e, "error", Held(e))}]
  /\ UNCHANGED <<file, brain, inbox, stored>>

(* Rename the old row, then import over it, with a new generation.         *)
ImportPage(e) ==
  LET old == RowsOf(e.page)
      over == IF old # {} THEN old ELSE {e.path}
      gen == IF \E s \in over : brain[s] # None
             THEN brain[CHOOSE s \in over : TRUE].gen + 1 ELSE 1
      row == [page |-> e.page, rev |-> file[e.path].rev, gen |-> gen, src |-> e.path]
  IN  /\ serving # None /\ serving.step = "page" /\ e \in serving.todo
      /\ Importable(e)
      /\ brain' = [s \in Paths |-> IF s = e.path THEN row
                                   ELSE IF s \in old THEN None ELSE brain[s]]
      /\ serving' = [serving EXCEPT
                       !.step = "verify", !.page = e, !.held = Held(e),
                       !.from = IF old = {} THEN e.path ELSE CHOOSE s \in old : TRUE]
      /\ UNCHANGED <<file, inbox, stored>>

-----------------------------------------------------------------------------
(* The file is hashed again.  When it has changed, the rename is undone,   *)
(* the import is not.                                                      *)
PageDone(result) ==
  [serving EXCEPT !.step = "page", !.page = None, !.from = None, !.held = {},
                  !.todo = @ \ {serving.page}, !.results = @ \cup {result}]

Verifying == serving # None /\ serving.step = "verify"

VerifyPage ==
  LET e == serving.page
  IN  /\ Verifying
      /\ \/ /\ FileMatches(e)
            /\ serving' = PageDone(Imported(e))
            /\ UNCHANGED brain
         \/ /\ ~FileMatches(e)
            /\ serving' = PageDone(Result(e, "superseded", serving.held))
            /\ brain' = [s \in Paths |->
                           IF s = serving.from THEN brain[e.path]
                           ELSE IF s = e.path THEN None ELSE brain[s]]
      /\ UNCHANGED <<file, inbox, stored>>

(* The second rename fails too: recovery_required.                         *)
FailCompensation ==
  LET e == serving.page
  IN  /\ Verifying
      /\ ~FileMatches(e)
      /\ serving.from # e.path
      /\ serving' = PageDone(Result(e, "recovery", serving.held))
      /\ UNCHANGED <<file, brain, inbox, stored>>

-----------------------------------------------------------------------------
(* reconcileDeletedPages: walk the root, then delete what was not found.   *)
Walk ==
  /\ serving # None /\ serving.step = "page" /\ serving.todo = {}
  /\ serving.req.mode = "reconcile"
  /\ serving' = [serving EXCEPT !.step = "delete",
                   !.present = {q \in Paths : file[q] # None}]
  /\ UNCHANGED <<file, brain, inbox, stored>>

ExpectedPaths == {e.path : e \in serving.req.expected}
Unlisted == serving.present \ ExpectedPaths
Protected ==
  serving.req.protected \cup UNION {r.held : r \in serving.results}

(* Mutant: what the request protects is not looked at.                     *)
DeletableUnprotected ==
  {s \in Paths :
     /\ brain[s] # None
     /\ brain[s].src \notin ExpectedPaths \cup serving.present}

Deletable ==
  {s \in Paths :
     /\ brain[s] # None
     /\ brain[s].src \notin ExpectedPaths \cup serving.present \cup Protected
     /\ s \notin Protected}

DeleteRows ==
  /\ serving # None /\ serving.step = "delete"
  /\ brain' = [s \in Paths |-> IF s \in Deletable THEN None ELSE brain[s]]
  /\ serving' = [serving EXCEPT !.step = "store", !.deleted = Deletable]
  /\ UNCHANGED <<file, inbox, stored>>

(* storeIdempotentResult, at the very end.                                 *)
Store ==
  /\ serving # None
  /\ \/ serving.step = "store"
     \/ /\ serving.step = "page" /\ serving.todo = {}
        /\ serving.req.mode = "incremental"
  /\ stored' = [k \in DOMAIN stored \cup {serving.req.key} |->
                  IF k \in DOMAIN stored THEN stored[k]
                  ELSE [protected |-> serving.req.protected,
                        results |-> serving.results,
                        deleted |-> serving.deleted,
                        unlisted |-> Unlisted]]
  /\ serving' = None
  /\ UNCHANGED <<file, brain, inbox>>

(* A restart of GBrain.                                                    *)
Restart ==
  /\ serving # None \/ inbox # {}
  /\ inbox' = {}
  /\ serving' = None
  /\ UNCHANGED <<file, brain, stored>>

Serve ==
  \/ \E req \in inbox : Accept(req)
  \/ serving # None /\ \E e \in serving.todo : RefusePage(e) \/ ImportPage(e)
  \/ VerifyPage
  \/ Walk
  \/ DeleteRows
  \/ Store
=============================================================================
