------------------------------ MODULE MCStore ------------------------------
(***************************************************************************)
(* A repository with a model in two pieces, one in one file and their      *)
(* projectors, one of safetensors, and one whose model has the name of     *)
(* that but for case; beside them a model of Ollama's in one blob, one     *)
(* with nothing there, and names that are the beginning of others.         *)
(*                                                                         *)
(* Or, instead of pulls and removals, requests that make directories for   *)
(* themselves (Caches): libraries of two files, an Ollama model of two     *)
(* layers, MLX libraries that were never fetched, lost their mark and a    *)
(* file, or are there.  The two share a disk and no state, and are checked *)
(* in one run, from initial states of their own.                           *)
(***************************************************************************)
EXTENDS Store, Caches, TLC

Qwen == <<"qwen">>
Q4   == <<"qwen", "-Q4_K_M">>
F16  == <<"qwen", "-F16">>
Small == <<"x", "-bf16">>
Big   == <<"x", "-BF16">>

File(name, kind, i, of, labels) ==
    [name |-> name, kind |-> kind, i |-> i, of |-> of, labels |-> labels]

MCRepos == {
    [name |-> Qwen, files |-> <<
        File(<<>>, "mmproj", 0, 1, {"BF16"}), File(<<>>, "mmproj", 0, 1, {"F16"}),
        File(F16, "gguf", 0, 1, {"F16"}),
        File(Q4, "gguf", 1, 2, {"Q4_K_M"}), File(Q4, "gguf", 2, 2, {"Q4_K_M"})>>],
    [name |-> Small, files |-> <<
        File(<<>>, "config", 0, 1, {}), File(<<>>, "weights", 1, 2, {}),
        File(<<>>, "weights", 2, 2, {}), File(<<>>, "index", 0, 2, {}),
        File(<<>>, "tokenizer", 0, 1, {})>>],
    [name |-> Big, files |-> <<File(Big, "gguf", 0, 1, {"BF16", "F16"})>>]}

MCLower == [w \in {"qwen", "x", "-Q4_K_M", "-F16", "-bf16", "-BF16", ":latest", "mmproj"} |->
    CASE w = "-Q4_K_M" -> "-q4_k_m" [] w = "-F16" -> "-f16" [] w = "-BF16" -> "-bf16" [] OTHER -> w]
MCManifests == {
    [name |-> <<"x", ":latest">>, weights |-> "blob"],
    [name |-> <<"qwen", ":latest">>, weights |-> "none"]}
MCAsked == {Qwen, <<"x">>, Q4, Small, Big, Append(Q4, "mmproj"), <<"x", ":latest">>}
MCFound == {{}, {Entry(Big, "gguf", 0, 1), Entry(Q4, "gguf", 2, 2)}}

MCLibFiles == {"libmlx.dylib", "mlx.metallib"}
MCLayers == {"weights", "tokenizer"}
MCMLXFound == {Empty, [files |-> {"libmlx.dylib"}, mark |-> 0],
               [files |-> MCLibFiles, mark |-> 1]}

Quiet == [pulls |-> 0, removals |-> 0]
MCBounds == {Quiet, [pulls |-> 2, removals |-> 2]}

\* Three times one directory, by two requests at a time: the three share nothing.
None == [need \in Needs |-> 0]
MCStarts == {None} \cup {[None EXCEPT ![need] = 3] : need \in Needs}

AtRest == starts = None /\ \A p \in Procs : proc[p] = Out
MCInit ==
    /\ Init /\ CachesInit
    /\ IF starts = None THEN left # Quiet ELSE left = Quiet /\ disk = {}
    /\ starts["mlx"] = 0 => mlx = Empty
MCNext ==
    \/ AtRest /\ Next /\ UNCHANGED cacheVars
    \/ ~AtRest /\ CachesNext /\ UNCHANGED vars
MCSpec == MCInit /\ [][MCNext]_<<vars, cacheVars>>

MCSymmetry == Permutations(Pullers) \cup Permutations(Procs) \cup Permutations(Kinfers)
=============================================================================
