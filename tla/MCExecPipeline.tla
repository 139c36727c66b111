--------------------------- MODULE MCExecPipeline ---------------------------
EXTENDS ExecPipeline, TLC
CONSTANTS root, dep, guest, composed, s1, s2, e, drv, t1, t2, cli, res, inv, h1, h2

\* s1, s2: one static composition for two tenants.  e: an endpoint consumer with
\* one bound provider.  drv: a guest that drives the linker and has a binding too.
MCRoot == [p \in Plans |-> IF p = drv THEN guest ELSE root]
MCParts == [p \in Plans |-> {MCRoot[p], dep}]
MCBound == [p \in Plans |-> {dep}]
MCArtifact == [p \in Plans |-> composed]
MCTenant == [p \in Plans |-> IF p = s2 THEN t2 ELSE t1]
MCDeclares == [p \in Plans |-> {cli, res, inv}]
MCNeeds == [p \in Plans |-> {cli}]
MCAllows == [h \in Hosts |-> IF h = h1 THEN {cli, res, inv} ELSE {cli, res}]
Symmetry == Permutations(Workers)

\* One behaviour is about the tenants of one composition or about linking at run
\* time on two hosts, never both: the plans of the other batch are not submitted.
VARIABLE batch
Batches == {[plans |-> {s1, s2}, hosts |-> {h1, h2}, trusts |-> {}, keeps |-> {dep}, puts |-> {}, writers |-> 2],
            [plans |-> {e, drv}, hosts |-> {h1, h2}, trusts |-> {dep}, keeps |-> {}, puts |-> {dep}, writers |-> 1]}
InBatch == /\ \A w \in Workers : call[w].plan \in batch.plans \cup {None}
           /\ host \in batch.hosts
           /\ trusted \subseteq batch.trusts
           /\ Cardinality({w \in Workers : call[w].stage \in {"put", "put_write", "put_rename"}}) <= batch.writers
           /\ batch.keeps \subseteq Present
           /\ \A w \in Workers : call[w].plan = None => call[w].subject \in batch.puts \cup {None}
MCInit == Init /\ batch \in Batches /\ InBatch
MCSpec == MCInit /\ [][Next /\ UNCHANGED batch /\ InBatch']_<<vars, batch>>
=============================================================================
