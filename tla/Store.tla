------------------------------- MODULE Store -------------------------------
(***************************************************************************)
(* kinfer's directory of models: pulls that fill it file by file           *)
(* (cmd/kinfer/pull.go, internal/hub), the listing that reads it, names    *)
(* turned into files, and kinfer rm (internal/store).                      *)
(*                                                                         *)
(* The directory is the set `disk' of its entries.  An entry is a file of  *)
(* the model `name', or the directory of a model of safetensors:           *)
(*   gguf      the i-th of `of' pieces; i = 0: the model is this one file  *)
(*   mmproj    NAME.mmproj.gguf, the projector kept beside the model       *)
(*   dir       a directory, and in it weights (i of `of'), index,          *)
(*             tokenizer and config                                        *)
(* under its own name (is = "final"), as name.part ("part"), or the record *)
(* name.part.json of what of it has arrived ("note").  Sizes and times are *)
(* left out.                                                               *)
(*                                                                         *)
(* A name is a sequence of words, so that case and beginnings of names can *)
(* be told: <<"qwen", "-27b">> begins with <<"qwen">>.                     *)
(***************************************************************************)
EXTENDS Naturals, FiniteSets, Sequences, SequencesExt

CONSTANTS
    Pullers,     \* kinfer pulls at one time
    Lower,       \* every word, and the same in lower case
    Repos,       \* the repositories on Hugging Face: name, and files in name order
    Quants,      \* the quantisations asked for, "" for none
    Manifests,   \* what Ollama keeps: name, and what its weights layer is
    Asked,       \* the names rm is given
    Found,       \* what may be in the directory at first
    Bounds       \* bounds the pulls and the removals

VARIABLES
    disk,   \* the entries of the directory
    pull,   \* each pull: the entries it has yet to fetch, and where it is
    left,   \* pulls and removals left
    raced   \* a removal took something from under a running pull

vars == <<disk, pull, left, raced>>

Nobody == [todo |-> <<>>, at |-> "idle", lost |-> FALSE]

Init ==
    /\ disk \in Found
    /\ pull = [p \in Pullers |-> Nobody]
    /\ left \in Bounds /\ raced = FALSE

----------------------------------------------------------------------------
(* What a pull fetches.                                                    *)

Is(e, s) == [e EXCEPT !.is = s]
Entry(n, k, i, of) == [name |-> n, kind |-> k, i |-> i, of |-> of, is |-> "final"]

\* Projectors, importance matrices and MTP heads are files beside a model.
IsModel(f) == f.kind = "gguf"
GGUFs(files) == SelectSeq(files, LAMBDA f : f.kind \in {"gguf", "mmproj", "aux"})

\* The file a quantisation names: the one whose name contains it, of several
\* the first piece; with none named, Q4_K_M or the first.
Pick(files, quant) ==
    LET ms   == IF \E f \in Range(files) : IsModel(f) THEN SelectSeq(files, IsModel) ELSE files
        With(l) == SelectSeq(ms, LAMBDA f : l \in f.labels)
        Firsts  == SelectSeq(With(quant), LAMBDA f : f.i = 1)
    IN  IF quant = "" THEN <<Head(With("Q4_K_M") \o ms)>>
        ELSE IF Len(With(quant)) = 1 THEN With(quant)
        ELSE IF Firsts # <<>> THEN <<Head(Firsts)>> ELSE <<>>

\* Every piece of the split model f is a piece of, or f.
Shards(files, f) ==
    IF f.i = 0 THEN <<f>>
    ELSE SelectSeq(files, LAMBDA g : g.kind = f.kind /\ g.name = f.name /\ g.of = f.of /\ g.i > 0)

\* F16 before BF16 before F32 before the first.
Projector(files) ==
    LET found == SelectSeq(files, LAMBDA f : f.kind = "mmproj")
        f16  == SelectSeq(found, LAMBDA f : "F16" \in f.labels /\ "BF16" \notin f.labels)
        bf16 == SelectSeq(found, LAMBDA f : "BF16" \in f.labels)
        f32  == SelectSeq(found, LAMBDA f : "F32" \in f.labels)
        best == f16 \o bf16 \o f32 \o found
    IN  IF best = <<>> THEN <<>> ELSE <<Head(best)>>

\* The weights first and config.json last; nothing unless the files make a model.
MLXFiles(files) ==
    LET Of(ks) == SelectSeq(files, LAMBDA f : f.kind \in ks)
    IN  IF Of({"weights"}) = <<>> \/ Of({"tokenizer"}) = <<>> \/ Of({"config"}) = <<>> THEN <<>>
        ELSE Of({"weights"}) \o Of({"index", "tokenizer"}) \o Of({"config"})

Kept(f) == Entry(f.name, f.kind, f.i, f.of)
KeptProjector(set) == Entry(set[1].name, "mmproj", 0, 1)

\* The entries a pull of the repository fetches, in order; none: it refuses.
Set(repo, quant) ==
    LET gs == GGUFs(repo.files)
        f  == Pick(gs, quant)
        set == Shards(gs, f[1])
        proj == IF Projector(gs) = <<>> THEN <<>> ELSE <<KeptProjector(set)>>
        mlx == MLXFiles(repo.files)
        InDir(g) == [Kept(g) EXCEPT !.name = repo.name]
    IN  IF gs = <<>> THEN IF quant = "" THEN [i \in DOMAIN mlx |-> InDir(mlx[i])] ELSE <<>>
        ELSE IF f = <<>> THEN <<>>
        ELSE [i \in DOMAIN set |-> Kept(set[i])] \o proj
Wanted == [r \in Repos, q \in Quants |-> Set(r, q)]

\* No file of a repository twice, and none that a pull keeps under a name it
\* already keeps another under.
ASSUME Distinct ==
    \A r \in Repos, q \in Quants : IsInjective(r.files) /\ IsInjective(Wanted[r, q])

----------------------------------------------------------------------------
(* What the directory holds: List, Unfinished.                             *)

InDirs == {"weights", "index", "tokenizer", "config"}
Dir(d) == Entry(d, "dir", 0, 0)
Inside(d) == {e \in disk : e.kind \in InDirs /\ e.name = d}
Dirs == {e.name : e \in {x \in disk : x.kind = "dir"}}

\* modelDir: config, tokenizer, weights, no piece of the index missing, and
\* no file arriving.
Has(d, k) == {e \in Inside(d) : e.kind = k /\ e.is = "final"}
Missing(d) == {i \in UNION {1 .. e.of : e \in Has(d, "index")} : i \notin {e.i : e \in Has(d, "weights")}}
Arriving(d) == {e \in Inside(d) : e.is = "part"}
Complete(d) ==
    /\ Has(d, "config") # {} /\ Has(d, "tokenizer") # {} /\ Has(d, "weights") # {}
    /\ Missing(d) = {} /\ Arriving(d) = {}
\* Wrong: a directory is a pull's only while a file of it is arriving.
BegunFile(d) == Arriving(d) # {}
\* A directory a pull is filling, or stopped filling.
Begun(d) == ~Complete(d) /\ (Arriving(d) # {} \/ Has(d, "weights") # {})

Model(n, path, source) == [name |-> n, path |-> path, source |-> source]

\* The pieces here of the split model n.
Pieces(n) == {e \in disk : e.kind = "gguf" /\ e.i > 0 /\ e.is = "final" /\ e.name = n}

\* Wrong: a split model is listed once its first piece is here.
SplitByHead == {e \in disk : e.kind = "gguf" /\ e.i = 1 /\ e.is = "final"}
\* The first pieces of the split models whose pieces are all here.
Split == {e \in disk : e.kind = "gguf" /\ e.i = 1 /\ e.is = "final" /\ Cardinality(Pieces(e.name)) = e.of}

List ==
    {Model(d, Dir(d), "kinfer") : d \in {x \in Dirs : Complete(x)}}
    \cup {Model(e.name, e, "kinfer") :
            e \in Split \cup {x \in disk : x.kind = "gguf" /\ x.i = 0 /\ x.is = "final"}}

Fold(n) == [i \in DOMAIN n |-> Lower[n[i]]]
SameButCase(m, n) == Fold(m) = Fold(n)

\* A manifest is a model kinfer can load if it names weights that are there:
\* one blob, or one for each tensor.  A cloud entry names none.
OllamaModels ==
    {Model(m.name, Entry(m.name, m.weights, 0, 1), "ollama") :
        m \in {x \in Manifests : x.weights \in {"blob", "tensors"}}}

All == List \cup {m \in OllamaModels : \A o \in List : ~SameButCase(o.name, m.name)}

\* The name an unfinished file is listed under: NAME.mmproj.gguf is no model's.
ListedAs(e) == IF e.kind = "mmproj" THEN Append(e.name, "mmproj") ELSE e.name

\* What is here of a model whose file is name.part, or that lacks pieces.
Unfinished ==
    LET parts(n) == {e \in disk : e.kind \in {"gguf", "mmproj"} /\ e.is = "part" /\ ListedAs(e) = n}
        notes(n) == {e \in disk : e.is = "note" /\ Is(e, "part") \in parts(n)}
        of(n) == CHOOSE k \in {e.of : e \in parts(n) \cup Pieces(n)} : TRUE
        whole(n) == Cardinality(Pieces(n)) = of(n)
        names == {ListedAs(e) : e \in {x \in disk : x.kind \in {"gguf", "mmproj"} /\
                                                     (x.is = "part" \/ (x.is = "final" /\ x.i > 0))}}
    IN  {[name |-> d, files |-> Inside(d) \cup {Dir(d)}] : d \in {x \in Dirs : Begun(x)}}
        \cup {[name |-> n, files |-> parts(n) \cup notes(n) \cup (IF whole(n) THEN {} ELSE Pieces(n))] :
                n \in {x \in names : ~(whole(x) /\ parts(x) = {})}}

\* The unfinished model a name means: of exactly that name before one that
\* has it but for case.  A set of at most one.
UnfinishedOf(us, n) ==
    LET exact == {u \in us : u.name = n}
        folded == {u \in us : SameButCase(u.name, n)}
    IN  IF exact \cup folded = {} THEN {}
        ELSE {CHOOSE u \in folded : exact # {} => u \in exact}

----------------------------------------------------------------------------
(* Names turned into models, of the models `ms' and the unfinished `us' that *)
(* are here.  Each answers a set: of one, or none where it is an error.      *)

One(s) == IF Cardinality(s) = 1 THEN s ELSE {}
Exactly(ms, n) == {m \in ms : m.name = n}
Folded(ms, n) == {m \in ms : SameButCase(m.name, n)}
Latest(ms, n) == Folded(ms, Append(n, ":latest"))

Lookup(ms, n) ==
    IF Exactly(ms, n) # {} THEN Exactly(ms, n)
    ELSE IF Folded(ms, n) # {} THEN One(Folded(ms, n))
    ELSE Latest(ms, n)

\* Exactly the name, which a pull that has not finished may have, then the
\* name but for case, then Ollama's tag, then the only name that begins so.
Resolve(ms, us, n) ==
    IF Exactly(ms, n) # {} THEN Exactly(ms, n)
    ELSE IF Exactly(us, n) # {} THEN {}
    ELSE IF Folded(ms, n) # {} THEN One(Folded(ms, n))
    ELSE IF Latest(ms, n) # {} THEN Latest(ms, n)
    ELSE IF Folded(us, n) # {} THEN {}
    ELSE One({m \in ms : IsPrefix(Fold(n), Fold(m.name))})

\* The projector the engine is given with a model of kinfer's own.
ProjectorFor(m) ==
    IF m.path.kind = "gguf" THEN disk \cap {Entry(m.name, "mmproj", 0, 1)} ELSE {}

----------------------------------------------------------------------------
(* What the server says of the store to a client that looks before it asks. *)

\* /api/tags and /v1/models list the same.
Tags == {m.name : m \in All}
OpenAIModels == {m.name : m \in All}

\* The name /api/ps gives what is loaded from path: the store's; or the file's,
\* of which a piece has one of its own.
ModelName(path) == IF path.i > 0 THEN Append(path.name, "-00001-of-") ELSE path.name
PSName(path) ==
    LET ms == {m \in All : m.path = path}
    IN IF ms = {} THEN ModelName(path) ELSE (CHOOSE m \in ms : TRUE).name

\* /v1/models/{id}: the listed model whose file id means, of at most one.
ModelOf(ms, us, id) == {m \in ms : m.path \in {x.path : x \in Resolve(ms, us, id)}}

----------------------------------------------------------------------------
(* kinfer pull.                                                            *)

Goes(p, to) == pull' = [pull EXCEPT ![p] = to]
Fetching(p) == Head(pull[p].todo)
Part(p) == Is(Fetching(p), "part")
Note(p) == Is(Fetching(p), "note")
NextFile(p) ==
    IF Len(pull[p].todo) = 1 THEN Nobody
    ELSE [todo |-> Tail(pull[p].todo), at |-> "open", lost |-> FALSE]
\* A file of a directory can be made only while the directory is there.
Placed(e) == e.kind \in InDirs => e.name \in Dirs

Start(p, repo, quant) ==
    /\ pull[p].at = "idle" /\ left.pulls > 0
    /\ left' = [left EXCEPT !.pulls = @ - 1]
    /\ LET want == Wanted[repo, quant] IN
        /\ want # <<>>
        /\ disk' = disk \cup (IF want[1].kind \in InDirs THEN {Dir(repo.name)} ELSE {})
        /\ Goes(p, [todo |-> want, at |-> "open", lost |-> FALSE])
    /\ UNCHANGED raced

\* The disk cannot take what is still to come; the directory just made goes,
\* if nothing is in it.
NoRoom(p, repo, quant) ==
    /\ pull[p].at = "idle" /\ left.pulls > 0
    /\ left' = [left EXCEPT !.pulls = @ - 1]
    /\ LET want == Wanted[repo, quant] IN
        /\ \E i \in DOMAIN want : want[i] \notin disk
        /\ disk' = IF want[1].kind \in InDirs
                    THEN IF Inside(repo.name) = {} THEN disk \ {Dir(repo.name)}
                         ELSE disk \cup {Dir(repo.name)}
                    ELSE disk
    /\ UNCHANGED <<pull, raced>>

\* Hugging Face does not answer, another pull has name.part, or there is no
\* directory to put it in.
CannotOpen(p) ==
    /\ pull[p].at = "open"
    /\ Goes(p, Nobody)
    /\ UNCHANGED <<disk, left, raced>>

\* name.part is this pull's.  A file that is here already needs nothing; or
\* name.part is gone on with, and the record kept beside it.  That nobody
\* pulls a file whose name.part was removed under a pull still running is
\* assumed of the user.
Opened(p) ==
    /\ pull[p].at = "open" /\ Placed(Fetching(p))
    /\ \A q \in Pullers \ {p} :
        pull[q].at = "fetch" => Fetching(q) # Fetching(p)
    /\ IF Fetching(p) \in disk
        THEN /\ disk' = disk \ {Part(p), Note(p)}
             /\ Goes(p, NextFile(p))
        ELSE /\ disk' = disk \cup {Part(p), Note(p)}
             /\ Goes(p, [pull[p] EXCEPT !.at = "fetch"])
    /\ UNCHANGED <<left, raced>>

\* finish: the whole file takes its name; the record goes after it.  A
\* name.part removed meanwhile has none to take.
Finish(p) ==
    /\ pull[p].at = "fetch"
    /\ IF pull[p].lost
        THEN disk' = disk \ {Note(p)} /\ Goes(p, Nobody)
        ELSE /\ disk' = (disk \ {Part(p)}) \cup {Fetching(p)}
             /\ Goes(p, [pull[p] EXCEPT !.at = "forget"])
    /\ UNCHANGED <<left, raced>>

Forget(p) ==
    /\ pull[p].at = "forget"
    /\ disk' = disk \ {Note(p)}
    /\ Goes(p, NextFile(p))
    /\ UNCHANGED <<left, raced>>

\* The record of what has arrived is written every two seconds, whether
\* name.part is still there or not.
Save(p) ==
    /\ pull[p].at = "fetch" /\ Placed(Fetching(p)) /\ Note(p) \notin disk
    /\ disk' = disk \cup {Note(p)}
    /\ UNCHANGED <<pull, left, raced>>

\* failed: what arrived is kept with its record; or, with nothing arrived or
\* the wrong bytes, both go.
Fails(p) ==
    /\ pull[p].at = "fetch"
    /\ disk' \in {disk, disk \ {Part(p), Note(p)}}
    /\ Goes(p, Nobody)
    /\ UNCHANGED <<left, raced>>

\* The process ends where it is.
Killed(p) ==
    /\ pull[p].at \in {"open", "fetch", "forget"}
    /\ Goes(p, Nobody)
    /\ UNCHANGED <<disk, left, raced>>

----------------------------------------------------------------------------
(* kinfer rm.                                                              *)

\* Wrong: only the piece the name resolved to.
AllOfPiece(m) == IF m.path.kind = "dir" THEN Inside(m.name) \cup {m.path} ELSE {m.path}
\* The files a model is made of: its directory, or all its pieces.
AllOf(m) ==
    IF m.path.kind = "dir" THEN Inside(m.name) \cup {m.path}
    ELSE IF m.path.i = 0 THEN {m.path} ELSE Pieces(m.name)

\* What a pull left of a model whose files are gone.
Leavings(us, m, gone) ==
    IF m.path.kind = "dir" THEN {}
    ELSE UNION {u.files : u \in UnfinishedOf({[v EXCEPT !.files = @ \ gone] : v \in us}, m.name)}

\* What rm deletes: the unfinished model of the name, where no model has it
\* or has it but for case; or the model the name resolves to, its projector
\* and what a pull left of it.  Nothing of Ollama's.
Removes(ms, us, n) ==
    IF \E u \in UnfinishedOf(us, n) :
        Lookup(ms, n) = {} \/ (u.name = n /\ \A m \in Lookup(ms, n) : m.name # n)
    THEN UNION {u.files : u \in UnfinishedOf(us, n)}
    ELSE UNION {AllOf(m) \cup ProjectorFor(m) \cup Leavings(us, m, AllOf(m)) :
                    m \in {x \in Resolve(ms, us, n) : x.source = "kinfer"}}

Rm(n) ==
    /\ left.removals > 0
    /\ left' = [left EXCEPT !.removals = @ - 1]
    /\ \E ms \in {All}, us \in {Unfinished} : \E gone \in {Removes(ms, us, n)} :
        /\ gone # {}
        /\ disk' = disk \ gone
        /\ pull' = [p \in Pullers |->
                        IF pull[p].at = "fetch" /\ Part(p) \in gone
                        THEN [pull[p] EXCEPT !.lost = TRUE] ELSE pull[p]]
        /\ raced' = (raced \/ \E p \in Pullers : /\ pull[p].at # "idle"
                                                 /\ \E e \in gone : e.name = Fetching(p).name)

Next ==
    \/ \E p \in Pullers :
        \/ \E r \in Repos, q \in Quants : Start(p, r, q) \/ NoRoom(p, r, q)
        \/ CannotOpen(p) \/ Opened(p) \/ Finish(p) \/ Forget(p)
        \/ Save(p) \/ Fails(p) \/ Killed(p)
    \/ \E n \in Asked : Rm(n)

Spec == Init /\ [][Next]_vars

----------------------------------------------------------------------------
TypeOK ==
    /\ \A e \in disk : e.is \in {"final", "part", "note"} /\ e.i <= e.of
    /\ \A p \in Pullers :
        /\ pull[p].at \in {"idle", "open", "fetch", "forget"}
        /\ (pull[p].at = "idle") <=> (pull[p].todo = <<>>)
        /\ pull[p].lost => raced
    /\ \E b \in Bounds : left.pulls \in 0 .. b.pulls /\ left.removals \in 0 .. b.removals

Fetched == {w \in {Wanted[r, q] : r \in Repos, q \in Quants} : w # <<>>}
OwnerOf(w) == w[1].name

\* A model that is listed is all there: what a pull has yet to fetch of it is
\* its projector at most, whatever was stopped, killed, resumed or removed.
\* (A directory removed under its pull and pulled again is filled by both,
\* config.json by the first while the weights of the second still come.)  And
\* every name means one model to whoever asks: what Lookup decides by is what
\* Resolve opens, and what the server lists, or says it has loaded, it serves
\* under that name.
ListedIsWhole ==
    /\ \A m \in List, w \in Fetched :
        OwnerOf(w) = m.name /\ (m.path.kind = "dir" => ~raced)
            => {e \in Range(w) : e.kind # "mmproj"} \subseteq disk
    /\ \A ms \in {All}, us \in {Unfinished} : \A n \in Asked :
        Lookup(ms, n) = {} \/ Resolve(ms, us, n) \subseteq Lookup(ms, n)
    /\ \A ms \in {All}, us \in {Unfinished} :
        /\ \A m \in ms : ModelOf(ms, us, PSName(m.path)) = {m}
        /\ \A n \in Tags \cap OpenAIModels : \E m \in ms : ModelOf(ms, us, n) = {m}

\* The files on disk of a listed model.
FilesOf(m) ==
    {e \in disk : /\ e.name = m.name /\ e.is = "final"
                  /\ (m.path.kind = "dir") <=> (e.kind \in InDirs \cup {"dir"})}

\* Nothing that takes room is forgotten: each file is a listed model's, or an
\* unfinished one's that list shows and rm takes.  (A removal beside a running
\* pull of the same model can leave its projector to nobody.)  Every variable
\* keeps its type.
Shown ==
    UNION {FilesOf(m) : m \in List} \cup UNION {u.files : u \in Unfinished}
NothingForgotten ==
    /\ TypeOK
    /\ ~raced => {e \in disk : e.is # "note" /\ e.kind # "dir"} \subseteq Shown

\* rm takes one model and takes it whole: its pieces, its projector, what a
\* pull left of it.  No other listed model loses a file, and no unfinished one
\* but one of the same name but for case; and the name of something in the
\* store is never taken for the beginning of another's.
Gone == disk \ disk'
TakesOne(n) ==
    \A ms \in {List}, us \in {Unfinished} :
        /\ \E c \in {m.name : m \in ms} \cup {u.name : u \in us} :
            /\ \A m \in ms :
                FilesOf(m) \cap Gone # {} => m.name = c /\ FilesOf(m) \subseteq Gone
            /\ \A u \in us : u.files \cap Gone # {} => SameButCase(u.name, c)
            /\ (Exactly(ms, n) \cup Exactly(us, n) # {}) => SameButCase(c, n)
        /\ \A u \in Unfinished' : \A v \in us : u.name = v.name => v.files \cap Gone = {}
RemovesOne == [][\A n \in Asked : Rm(n) => TakesOne(n)]_vars
=============================================================================
