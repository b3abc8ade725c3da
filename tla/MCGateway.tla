----------------------------- MODULE MCGateway ------------------------------
EXTENDS LlmGateway, TLC

CONSTANTS w1, w2, p1, p2, month, d1, d2, noText

\* The form of an answer and whether it echoes a flagged pattern.
Answer(form, echo) == [form |-> form, echo |-> echo]
MCTexts == {Answer("valid", FALSE), Answer("valid", TRUE), Answer("fixable", FALSE),
            Answer("junk", FALSE)}

\* The request's tier leads with a provider nobody configured.
MCRoute == [own |-> <<"voyage", "anthropic">>, fast |-> <<"anthropic", "openai">>]
MCValid == {Answer("valid", FALSE)}
MCShortRoute == [own |-> <<"anthropic">>, fast |-> <<"anthropic">>]

Symmetry == Permutations(Workers)
=============================================================================
