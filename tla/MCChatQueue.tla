---------------------------- MODULE MCChatQueue ----------------------------
\* Small instances of ChatQueue: two messages of one session and one of another.
EXTENDS ChatQueue, TLC

CONSTANTS m1, m2, m3, s1, s2

MCSessionOf == m1 :> s1 @@ m2 :> s1 @@ m3 :> s2
\* m3 is a #resetall.
MCResetsOf == m3 :> {s1, s2}

=============================================================================
