----------------------------- MODULE MCLiveness -----------------------------
EXTENDS DeferredFlags

Op(op, r, w) == [op |-> op, reads |-> r, writes |-> w, to |-> 0, aa |-> FALSE, uncond |-> FALSE]
Jump(op, r, d, u) == [op |-> op, reads |-> r, writes |-> {}, to |-> d, aa |-> FALSE, uncond |-> u]

\* a jump of twice the page stands for bclrx and bcctrx
MCInsns ==
    {Op("plain", {}, {}), Op("compare", {}, Bits), Op("mfcr", Bits, {}),
     Op("crop", {}, {SO}), Op("everything", Bits, Bits)}
    \cup {Jump("bc", {"lt"}, d, FALSE) : d \in {-2, 2}}
    \cup {Jump("bc", {SO}, 2, FALSE), Jump("getpc", {}, 1, TRUE)}
    \cup {Jump("branch", {}, d, TRUE) : d \in {-2, 2 * Slots}}
    \cup {Jump("branch", {"lt"}, 2 * Slots, FALSE)}
=============================================================================
