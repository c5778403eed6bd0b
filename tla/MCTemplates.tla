----------------------------- MODULE MCTemplates -----------------------------
(* Instances of Templates for TLC. *)
EXTENDS Templates, TLC

CONSTANTS r1, r2, r3, r4

\* Requests are interchangeable.
Symmetry == Permutations(Requests)

Slashed == <<"/", "news", "/">>

\* Bodies that leave fields out, and the cases the builder tells apart.
MCBodies == {
    [limit |-> 0, include |-> <<Slashed, <<"blog">>>>],
    [human |-> TRUE, include |-> <<>>, exclude |-> <<<<"blog", "/">>>>,
     genai |-> [provider |-> "openai", key |-> Null, fields |-> <<>>]]}

MCFilters == {
    Null,
    [mode |-> "OR",
     chain |-> <<[kind |-> "by_list", list |-> {"news"}],
                 [kind |-> "by_cosine_similarity", threshold |-> Null]>>],
    [mode |-> "AND",
     chain |-> <<[kind |-> "by_date", start |-> 2, end |-> Null],
                 [kind |-> "by_list", list |-> {"news", "blog"}]>>]}

\* "example.com", and "example.com/?next=http://...".
MCUrls == [scheme : {Null}, nested : BOOLEAN, host : {TRUE}]

MCToolArgs == {
    [limit |-> Null, include |-> <<<<"*", "/", "news", "/", "*">>>>, human |-> TRUE],
    [limit |-> 5, include |-> Null, human |-> Null]}
=============================================================================
