------------------------------- MODULE Caches -------------------------------
(***************************************************************************)
(* The directories kinfer makes for itself, each by whichever process      *)
(* needs it first, and with nothing to keep two from making one at once:   *)
(*   "libs"   llama.cpp's libraries, unpacked file by file                 *)
(*            (internal/nativelib)                                         *)
(*   "mlx"    the MLX libraries, fetched once (internal/mlxengine/libs.go) *)
(*   "links"  the links to the blobs of a model of Ollama's, under the     *)
(*            names the MLX engine reads (internal/store/ollama.go)        *)
(* A process looks, builds what it does not find beside the place, and     *)
(* renames it there.  A directory is what is in it: files, and the mark    *)
(* that vouches for them (.complete, .manifest); one that is not there is  *)
(* an empty one, which a rename replaces as well.                          *)
(*                                                                         *)
(* A kinfer unpacks libraries once, and loads one MLX model at a time; but *)
(* every request looks for its model's links, and those of one kinfer      *)
(* build them in one directory beside the place, named after its pid.      *)
(***************************************************************************)
EXTENDS Naturals, FiniteSets

CONSTANTS
    Procs,       \* the requests running at one time
    Kinfers,     \* the processes they run in; a new one may have the pid of one that died
    LibFiles,    \* the files of a package of libraries
    Layers,      \* the layers of the model of Ollama's
    MLXFound,    \* what may be in the directory of the MLX libraries at first
    Starts,      \* bounds the times requests need each directory
    MaxVersions, \* bounds the times Ollama pulls the model anew
    MaxCuts      \* bounds the power cuts

Needs == {"libs", "mlx", "links"}

ASSUME LayersAssumption == Layers # {}

VARIABLES
    proc,      \* each request: its kinfer, what it needs, and where it is
    lib,       \* each of llama.cpp's libraries: "none", "torn" or "whole"
    mlx,       \* the directory of the MLX libraries
    links,     \* the directory of links
    tmp,       \* what is in each kinfer's directory beside it
    made,      \* the kinfers that have one
    manifest,  \* the version of Ollama's manifest
    starts,    \* how many more need each directory
    cuts,      \* power cuts so far
    spoiled    \* why links may lack some: one was "killed" removing them, or two
               \* requests built them in one place ("shared")

staging == <<tmp, made>>
bounds == <<starts, cuts>>
cacheVars == <<proc, lib, mlx, links, tmp, made, manifest, starts, cuts, spoiled>>

Out == [of |-> "", at |-> "out", need |-> "libs", left |-> {}, file |-> "", ver |-> 0]
Empty == [files |-> {}, mark |-> 0]
Package == [files |-> LibFiles, mark |-> 1]
LinksOf(v) == [files |-> Layers \X {v}, mark |-> v]

CachesInit ==
    /\ proc = [p \in Procs |-> Out]
    /\ lib = [f \in LibFiles |-> "none"] /\ mlx \in MLXFound /\ links = Empty
    /\ tmp = [k \in Kinfers |-> Empty] /\ made = {}
    /\ manifest = 1 /\ starts \in Starts /\ cuts = 0 /\ spoiled = {}

To(p, at) == proc' = [proc EXCEPT ![p].at = at]
At(p, need, at) == proc[p].need = need /\ proc[p].at = at
Ends(p) == proc' = [proc EXCEPT ![p] = Out]

\* A request that needs a directory looks; for one of Ollama's models by the
\* manifest it has just read.
Begin(p, need, k) ==
    /\ proc[p].at = "out" /\ starts[need] > 0 /\ starts' = [starts EXCEPT ![need] = @ - 1]
    /\ need # "links" => \A q \in Procs : proc[q].of = k => proc[q].need # need
    /\ proc' = [proc EXCEPT ![p] =
                  [of |-> k, at |-> "look", need |-> need, file |-> "", ver |-> manifest,
                   left |-> IF need = "links" THEN Layers ELSE LibFiles]]
    /\ UNCHANGED <<lib, mlx, links, staging, manifest, cuts, spoiled>>

----------------------------------------------------------------------------
(* llama.cpp's libraries: each is compared with the one kinfer carries, and *)
(* replaced, as a whole, by a rename.                                      *)

Compare(p) ==
    /\ At(p, "libs", "look")
    /\ IF proc[p].left = {} THEN To(p, "use")
       ELSE \E f \in proc[p].left :
                IF lib[f] = "whole" THEN proc' = [proc EXCEPT ![p].left = @ \ {f}]
                ELSE proc' = [proc EXCEPT ![p].at = "stage", ![p].file = f]
    /\ UNCHANGED <<lib, mlx, links, staging, manifest, bounds, spoiled>>

\* Wrong: the library is written where it is looked for.
StageInPlace(p) ==
    /\ At(p, "libs", "stage")
    /\ To(p, "install") /\ lib' = [lib EXCEPT ![proc[p].file] = "torn"]
    /\ UNCHANGED <<mlx, links, staging, manifest, bounds, spoiled>>
\* A file of its own in the same directory; the disk may be full.
Stage(p) ==
    /\ At(p, "libs", "stage")
    /\ (To(p, "install") \/ Ends(p))
    /\ UNCHANGED <<lib, mlx, links, staging, manifest, bounds, spoiled>>

Install(p) ==
    /\ At(p, "libs", "install")
    /\ lib' = [lib EXCEPT ![proc[p].file] = "whole"]
    /\ proc' = [proc EXCEPT ![p].at = "look", ![p].left = @ \ {proc[p].file}]
    /\ UNCHANGED <<mlx, links, staging, manifest, bounds, spoiled>>

----------------------------------------------------------------------------
(* The MLX libraries: the directory is complete, or it is fetched into one *)
(* beside it, which is renamed.  The mark is read before the files are     *)
(* looked for.                                                             *)

Marked(p) ==
    /\ \/ At(p, "mlx", "look") /\ To(p, IF mlx.mark = 1 THEN "files" ELSE "fetch")
       \/ At(p, "mlx", "again") /\ To(p, IF mlx.mark = 1 THEN "files again" ELSE "remove")
    /\ UNCHANGED <<lib, mlx, links, staging, manifest, bounds, spoiled>>

CompleteFiles(p) ==
    /\ \/ /\ At(p, "mlx", "files")
          /\ To(p, IF LibFiles \subseteq mlx.files THEN "use" ELSE "fetch")
       \/ /\ At(p, "mlx", "files again")
          /\ To(p, IF LibFiles \subseteq mlx.files THEN "use" ELSE "remove")
    /\ UNCHANGED <<lib, mlx, links, staging, manifest, bounds, spoiled>>

\* What arrives in a file of the process's own is the package, by size and
\* hash, or an error.
Fetch(p) ==
    /\ At(p, "mlx", "fetch")
    /\ \E arrived \in {"package", "cut off", "another"} :
        IF arrived = "package" THEN To(p, "unpack") ELSE Ends(p)
    /\ UNCHANGED <<lib, mlx, links, staging, manifest, bounds, spoiled>>

\* Unpacked and then marked in a directory of its own, which goes if a file of
\* the package is missing or cannot be written.
Unpack(p) ==
    /\ At(p, "mlx", "unpack")
    /\ \E written \in SUBSET LibFiles :
        IF written = LibFiles THEN To(p, "rename") ELSE Ends(p)
    /\ UNCHANGED <<lib, mlx, links, staging, manifest, bounds, spoiled>>

\* A directory that is in the way is another's, as good as this one if it is
\* complete, and removed if it is not.
Rename(p) ==
    /\ \/ /\ At(p, "mlx", "rename") \/ At(p, "mlx", "rename again")
          /\ mlx = Empty
          /\ mlx' = Package /\ To(p, "use")
       \/ At(p, "mlx", "rename") /\ mlx # Empty /\ To(p, "again") /\ UNCHANGED mlx
       \/ At(p, "mlx", "rename again") /\ mlx # Empty /\ Ends(p) /\ UNCHANGED mlx
    /\ UNCHANGED <<lib, links, staging, manifest, bounds, spoiled>>

\* os.RemoveAll unlinks what is in the directory one by one, in any order.
Less(d) == {[d EXCEPT !.files = @ \ {f}] : f \in d.files} \cup
           (IF d.mark = 0 THEN {} ELSE {[d EXCEPT !.mark = 0]})
Unlink(p) ==
    /\ proc[p].at = "remove"
    /\ \/ /\ proc[p].need = "mlx" /\ UNCHANGED links
          /\ \/ mlx' \in Less(mlx) /\ UNCHANGED proc
             \/ mlx = Empty /\ To(p, "rename again") /\ UNCHANGED mlx
       \/ /\ proc[p].need = "links" /\ UNCHANGED mlx
          /\ \/ links' \in Less(links) /\ UNCHANGED proc
             \/ links = Empty /\ To(p, "rename") /\ UNCHANGED links
    /\ UNCHANGED <<lib, staging, manifest, bounds, spoiled>>

----------------------------------------------------------------------------
(* A model of Ollama's: a directory stamped with another manifest than the *)
(* one read is removed, and the one built beside it renamed.               *)

\* Wrong: a stamp is enough, of whichever manifest.
StampedAny(p) == links.mark # 0
Stamped(p) == links.mark = proc[p].ver

\* From its first look beside the place until all of that is removed again.
Building(p) ==
    /\ proc[p].need = "links"
    /\ \/ proc[p].at \in {"clear", "mkdir", "link", "remove", "rename", "tidy"}
       \/ proc[p].at = "use" /\ proc[p].left = {}
Beside(p) == \E q \in Procs \ {p} : proc[q].of = proc[p].of /\ Building(q)

LookStamp(p) ==
    /\ At(p, "links", "look")
    /\ IF Stamped(p) THEN To(p, "use") /\ UNCHANGED spoiled
       ELSE To(p, "clear") /\ spoiled' = spoiled \cup (IF Beside(p) THEN {"shared"} ELSE {})
    /\ UNCHANGED <<lib, mlx, links, staging, manifest, bounds>>

\* What is beside the place is removed, first and last; it may come back
\* while another request is at work there.
RemoveBeside(p, next) ==
    LET k == proc[p].of IN
    \/ /\ \E d \in Less(tmp[k]) : tmp' = [tmp EXCEPT ![k] = d]
       /\ UNCHANGED <<proc, made>>
    \/ tmp[k] = Empty /\ made' = made \ {k} /\ next /\ UNCHANGED tmp
    \/ Beside(p) /\ next /\ UNCHANGED staging

Clear(p) ==
    /\ At(p, "links", "clear") /\ RemoveBeside(p, To(p, "mkdir"))
    /\ UNCHANGED <<lib, mlx, links, manifest, bounds, spoiled>>

Mkdir(p) ==
    /\ At(p, "links", "mkdir")
    /\ \/ made' = made \cup {proc[p].of} /\ To(p, "link")
       \/ Ends(p) /\ UNCHANGED made
    /\ UNCHANGED <<lib, mlx, links, tmp, manifest, bounds, spoiled>>

\* Link by link, and then the stamp; a link of that name may be there already,
\* the directory gone, the disk full.
Link(p) ==
    /\ At(p, "links", "link")
    /\ LET k == proc[p].of
           v == proc[p].ver
       IN  \/ \E f \in proc[p].left :
                 /\ k \in made /\ ~\E l \in tmp[k].files : l[1] = f
                 /\ tmp' = [tmp EXCEPT ![k].files = @ \cup {<<f, v>>}]
                 /\ proc' = [proc EXCEPT ![p].left = @ \ {f}]
           \/ /\ proc[p].left = {} /\ k \in made
              /\ tmp' = [tmp EXCEPT ![k].mark = v]
              /\ To(p, "remove")
           \/ To(p, "tidy") /\ UNCHANGED tmp
    /\ UNCHANGED <<lib, mlx, links, made, manifest, bounds, spoiled>>

\* Whatever is beside the place is renamed.  Another made one at the same
\* moment: it will do if it is of the same manifest.
RenameLinks(p) ==
    /\ At(p, "links", "rename")
    /\ LET k == proc[p].of
       IN  IF k \in made /\ links = Empty
           THEN /\ links' = tmp[k] /\ To(p, "use")
                /\ tmp' = [tmp EXCEPT ![k] = Empty] /\ made' = made \ {k}
           ELSE To(p, IF Stamped(p) THEN "use" ELSE "tidy") /\ UNCHANGED <<links, staging>>
    /\ UNCHANGED <<lib, mlx, manifest, bounds, spoiled>>

Tidy(p) ==
    /\ At(p, "links", "tidy") /\ RemoveBeside(p, Ends(p))
    /\ UNCHANGED <<lib, mlx, links, manifest, bounds, spoiled>>

----------------------------------------------------------------------------
\* What it was given is loaded, and held open from then on; what it built links
\* in is removed.
Loaded(p) ==
    /\ proc[p].at = "use" /\ IF Building(p) THEN To(p, "tidy") ELSE Ends(p)
    /\ UNCHANGED <<lib, mlx, links, staging, manifest, bounds, spoiled>>

Spoils(ps) == IF \E p \in ps : At(p, "links", "remove") THEN {"killed"} ELSE {}
Dies(k) ==
    /\ \E p \in Procs : proc[p].of = k
    /\ proc' = [p \in Procs |-> IF proc[p].of = k THEN Out ELSE proc[p]]
    /\ spoiled' = spoiled \cup Spoils({p \in Procs : proc[p].of = k})
    /\ UNCHANGED <<lib, mlx, links, staging, manifest, bounds>>

\* Of a library renamed and not flushed the disk may hold a part.
PowerCut ==
    /\ cuts < MaxCuts /\ cuts' = cuts + 1
    /\ proc' = [p \in Procs |-> Out]
    /\ \E fs \in SUBSET {f \in LibFiles : lib[f] = "whole"} :
        lib' = [f \in LibFiles |-> IF f \in fs THEN "torn" ELSE lib[f]]
    /\ spoiled' = spoiled \cup Spoils(Procs)
    /\ UNCHANGED <<mlx, links, staging, manifest, starts>>

OllamaPull ==
    /\ manifest < MaxVersions /\ manifest' = manifest + 1
    /\ UNCHANGED <<proc, lib, mlx, links, staging, bounds, spoiled>>

CachesNext ==
    \/ \E p \in Procs :
        \/ \E need \in Needs, k \in Kinfers : Begin(p, need, k)
        \/ Compare(p) \/ Stage(p) \/ Install(p)
        \/ Marked(p) \/ CompleteFiles(p) \/ Fetch(p) \/ Unpack(p) \/ Rename(p) \/ Unlink(p)
        \/ LookStamp(p) \/ Clear(p) \/ Mkdir(p) \/ Link(p) \/ RenameLinks(p) \/ Tidy(p)
        \/ Loaded(p)
    \/ \E k \in Kinfers : Dies(k)
    \/ PowerCut \/ OllamaPull

CachesSpec == CachesInit /\ [][CachesNext]_cacheVars

----------------------------------------------------------------------------
\* What a request is given is whole.  llama.cpp's libraries all the time it
\* loads them, whoever else starts, is killed or loses power; the MLX
\* libraries when it gets them, unless another that found the directory
\* incomplete is about to replace it, which it does without looking again; and
\* the links when it gets them, of the manifest it read, unless another is
\* removing them, was killed while it did, or two of one kinfer ever built them
\* at once (README, Disagreements).
Replacing(p, need) ==
    \E q \in Procs \ {p} : proc[q].need = need /\ proc[q].at \in {"again", "files again", "remove"}
Given(p) ==
    CASE proc'[p].need = "libs"  -> \A f \in LibFiles : lib'[f] = "whole"
      [] proc'[p].need = "mlx"   -> \/ proc[p].at = "use" \/ Replacing(p, "mlx")
                                    \/ LibFiles \subseteq mlx'.files
      [] proc'[p].need = "links" -> \/ proc[p].at = "use" \/ spoiled # {} \/ Replacing(p, "links")
                                    \/ links' = LinksOf(proc[p].ver)
GivenWhole == [][\A p \in Procs : proc'[p].at = "use" => Given(p)]_cacheVars

\* "A stamp of the manifest says whether the directory is still its own"
\* (ollama.go:173): stamped links are all there, unless they are being removed.
StampVouches ==
    \/ links.mark = 0 \/ links = LinksOf(links.mark)
    \/ "killed" \in spoiled \/ \E p \in Procs : At(p, "links", "remove")
=============================================================================
