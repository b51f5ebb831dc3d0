----------------------------- MODULE MCServing -----------------------------
(* Serving for TLC: one answer of each provider's shape.                   *)
EXTENDS Serving

AnEvent(text, finish, usage, end) ==
    [text |-> text, finish |-> finish, usage |-> usage, end |-> end]

OpenAI == [kind |-> "openai",
           events |-> <<AnEvent(1, FALSE, FALSE, FALSE), AnEvent(0, TRUE, FALSE, FALSE),
                        AnEvent(0, FALSE, FALSE, TRUE)>>]

Anthropic == [kind |-> "anthropic",
              events |-> <<AnEvent(1, FALSE, FALSE, FALSE), AnEvent(0, TRUE, FALSE, FALSE),
                           AnEvent(0, FALSE, TRUE, TRUE)>>]

Gemini == [kind |-> "gemini",
           events |-> <<AnEvent(1, FALSE, TRUE, FALSE), AnEvent(1, TRUE, TRUE, FALSE)>>]

WiresDef == {OpenAI, Anthropic, Gemini}
=============================================================================
