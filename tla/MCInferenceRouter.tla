------------------------- MODULE MCInferenceRouter -------------------------
(***************************************************************************)
(* A Claude backend and three local ones: two Ollama hosts with a common    *)
(* model and a small OpenAI-compatible one, which need not ask for its list. *)
(***************************************************************************)
EXTENDS InferenceRouter

MCKindOf  == <<"claude", "ollama", "ollama", "ollama">>
MCModels  == <<<<"haiku">>, <<"qwen", "llama">>, <<"qwen">>, <<"gpt">>>>
MCSize    == [m \in {"qwen", "llama", "gpt"} |->
                CASE m = "qwen" -> 14 [] m = "llama" -> 70 [] m = "gpt" -> 0]
MCDefault == [k \in {"claude", "ollama"} |-> IF k = "claude" THEN "sonnet" ELSE "qwen"]
Ask4(model, kind, tier) == [model |-> model, kind |-> kind, tier |-> tier]
MCOptions == {Ask4("qwen", "ollama", "simple"), Ask4("none", "none", "simple"),
              Ask4("none", "claude", "complex"), Ask4("lost", "none", "medium")}
=============================================================================
