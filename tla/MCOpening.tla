--------------------------- MODULE MCOpening ---------------------------
(* Small instances of Opening for TLC.                                     *)
EXTENDS Opening

\* A dense model; a hybrid mixture of experts with a drafting head; one whose
\* header says nothing of its attention; one trained for little.
Dense == [layers |-> 4, nextn |-> 0, interval |-> 0, perLayer |-> 512, state |-> 0, q8 |-> FALSE, mtp |-> FALSE,
          draft |-> 0, trained |-> 262144, moe |-> FALSE, logits |-> 512, activations |-> 64,
          layerSizes |-> <<6000, 6000, 6000, 6000>>, expertSizes |-> <<0, 0, 0, 0>>, apart |-> 1000]
Mixture == [layers |-> 5, nextn |-> 1, interval |-> 2, perLayer |-> 512, state |-> 40960, q8 |-> TRUE, mtp |-> TRUE,
            draft |-> 0, trained |-> 131072, moe |-> TRUE, logits |-> 512, activations |-> 64,
            layerSizes |-> <<12000, 12000, 12000, 12000, 2000>>, expertSizes |-> <<10000, 10000, 10000, 10000, 0>>, apart |-> 1000]
Unread == [Dense EXCEPT !.layers = 0, !.layerSizes = <<>>, !.expertSizes = <<>>, !.apart = 0, !.trained = 0]
Little == [Dense EXCEPT !.trained = 2048, !.q8 = TRUE]
Shapes == {Dense, Mixture, Unread, Little}

Asked == [slots |-> 0, ctx |-> 0, prefix |-> 0, batch |-> 0, hostExperts |-> 0, moeCache |-> 0, fixedLayout |-> FALSE,
          place |-> TRUE, peers |-> "none", split |-> FALSE, projector |-> FALSE, draft |-> 0, template |-> "own"]
Numbers == {[Asked EXCEPT !.slots = s, !.ctx = c, !.prefix = p, !.fixedLayout = f] :
               s \in {0, 4}, c \in {0, 8192, 131072}, p \in {-1, 0, 6}, f \in BOOLEAN}
Batches == {[Asked EXCEPT !.slots = s, !.ctx = c, !.batch = 1024] : s \in {0, 1}, c \in {0, 8192}}
Lends == {"none", "named", "find"}
Places == {[Asked EXCEPT !.hostExperts = h, !.moeCache = m, !.peers = w, !.draft = d] :
              h \in {0, 2}, m \in {0, 6000}, w \in Lends, d \in {0, 2}}
Asks == Numbers \cup Batches \cup Places
        \cup {[Asked EXCEPT !.place = FALSE], [Asked EXCEPT !.peers = "named", !.split = TRUE],
              [Asked EXCEPT !.projector = TRUE, !.draft = -1], [Asked EXCEPT !.template = "unknown"]}
Machines == {[total |-> 98304, free |-> 90000, known |-> TRUE], [total |-> 40960, free |-> 40000, known |-> TRUE],
             [total |-> 16384, free |-> 0, known |-> FALSE]}
Others == {<<30000>>, <<4000, 20000>>}
\* Below each of the lines that are drawn, between them, and above.
Free == {500, 1500, 3000, 5000, 30000}

=============================================================================
