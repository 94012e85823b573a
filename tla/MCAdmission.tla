---------------------------- MODULE MCAdmission ----------------------------
\* Two or three carriers of one or two sessions, with the troubles each plan names
EXTENDS Admission

CONSTANTS c1, c2, c3

H(t, k, v) == [t |-> t, key |-> k, view |-> v]
Three(h1, h2, h3) == [c \in Carrier |-> IF c = c1 THEN h1 ELSE IF c = c2 THEN h2 ELSE h3]
Two(h1, h2) == Three(h1, h2, H("none", 1, FALSE))
Plan(h, m) == [hello |-> h, may |-> m]

Again == Two(H("OPEN", 1, FALSE), H("OPEN", 1, TRUE))
Join == Two(H("OPEN", 1, FALSE), H("JOIN", 1, TRUE))
Other == Two(H("OPEN", 1, FALSE), H("OPEN", 2, FALSE))
Ping == Two(H("OPEN", 1, FALSE), H("PING", 1, FALSE))

MCPlans ==
    {Plan(Again, m) : m \in {{"closes"}, {"stops"}, {"expires"}, {"withdraws"}, {"dies"}}}
    \cup {Plan(Join, m) : m \in {{"closes"}, {"dies"}}}
    \cup {Plan(Other, m) : m \in {{"closes"}, {"fails"}}}
    \cup {Plan(Ping, {"closes"}), Plan(Two(H("PING", 1, FALSE), H("PING", 1, FALSE)), {"closes"})}
    \cup {Plan(Three(H("OPEN", 1, FALSE), H("OPEN", 1, FALSE), H(t, 1, TRUE)), {}) : t \in {"OPEN"}}
=============================================================================
