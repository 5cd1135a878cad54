----------------------------- MODULE MCFeedback -----------------------------
EXTENDS Feedback, TLC

CONSTANTS ann, phone, tv, crash

Reporters == {ann}
Apps      == {phone, tv}
Seen      == {crash}

Symmetric == Permutations(Apps)
=============================================================================
