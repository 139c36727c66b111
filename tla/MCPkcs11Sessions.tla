--------------------------- MODULE MCPkcs11Sessions ---------------------------
EXTENDS Pkcs11Sessions, TLC
Symmetry == Permutations(Sessions) \cup Permutations(Objects) \cup Permutations(Handles)

\* A behaviour is about one kind of operation, or two, and one number, which modules issue
\* again and again, or about single-part calls, two numbers and another library.
VARIABLE part
SinglePart == {"sign_recover", "verify_recover"}
Parts == {{"encrypt"}, {"decrypt"}, {"sign"}, {"verify"}, {"digest", "search"}, SinglePart}
Numbers == {h \in Handles : open[h] # None \/ IsHeld(h)}
InPart ==
    /\ \A p \in Handles \X (Kinds \ part) : ops[p] = None
    /\ part # SinglePart => Cardinality(Numbers) <= 1 /\ module \notin Modules \ Lacking
\* A number issued again, a misused object and a cut operation do not meet.
OneTrouble ==
    LET isCut == \E p \in Places : cut[p] # None
    IN  /\ again = {} \/ misused = {}
        /\ isCut => again = {} /\ misused = {}
MCInit == part \in Parts /\ Init
MCNext == Next /\ UNCHANGED part /\ InPart' /\ OneTrouble'
MCSpec == MCInit /\ [][MCNext]_<<vars, part>>
=============================================================================
