-------------------------- MODULE SymbolGeneration --------------------------
(***************************************************************************)
(* Generation of a symbol plan by a neural model whose tokens are held to  *)
(* a grammar: SYMBOL (SPACE SYMBOL)* EOS, over the symbols of one          *)
(* document.  Two realizers do it,                                         *)
(*                                                                         *)
(*   encoder   realizer/encoder_decoder.py  _SymbolTokenConstraint         *)
(*   decoder   realizer/decoder_lora.py     _SymbolTokenGrammar            *)
(*                                                                         *)
(* each with its own recognizer of token prefixes, which the generating    *)
(* library is to consult at every token and which checks the whole path    *)
(* once more when the library returns.  The library may honour the         *)
(* recognizer or not.  A token is a piece of text; several tokens may      *)
(* spell one symbol, and which of them the tokenizer uses is arbitrary.    *)
(* Decoding joins the pieces and drops special tokens.                     *)
(***************************************************************************)
EXTENDS Naturals, Sequences, SequencesExt, FiniteSetsExt, FiniteSets

CONSTANTS
    Kinds,         \* which realizers run
    Symbol,        \* symbols, as sequences of characters
    Piece,         \* the text of each token: [Token -> Seq(Char)]
    EOS, Pad,      \* special tokens, which decode to nothing
    MaxSymbols,    \* max_symbols of the decoder's configuration
    MaxNewTokens   \* max_new_tokens of both configurations

(* A symbol is one of the words str.split() makes of a plan                *)
(* (realizer/neural.py:58-59): not empty, without a space.                 *)
ASSUME GenerationAssumption ==
    /\ Kinds \subseteq {"encoder", "decoder"}
    /\ {EOS, Pad} \subseteq DOMAIN Piece /\ EOS # Pad
    /\ Piece[EOS] = <<>> /\ Piece[Pad] = <<>>
    /\ \A t \in DOMAIN Piece : Piece[t] \in Seq(Range(Piece[t]))
    /\ \A s \in Symbol : s \in Seq(Range(s)) /\ s # <<>> /\ " " \notin Range(s)
    /\ MaxSymbols \in Nat \ {0} /\ MaxNewTokens \in Nat \ {0}

Token == DOMAIN Piece
Space == " "

VARIABLES
    kind,       \* which realizer runs
    symbols,    \* allowed_symbols
    first,      \* how each symbol is encoded as the first of a plan
    following,  \* how each symbol is encoded after a space
    honoured,   \* the library consults the recognizer
    generated,  \* tokens generated so far
    output,     \* tokens the library returns
    prompt,     \* the library kept the prompt in front of them
    status,     \* "generating", "returned", "accepted" or "refused"
    plan        \* the accepted plan

generationVars == <<kind, symbols, first, following, honoured, generated, output, prompt, status, plan>>

(* tokenizer.decode(..., skip_special_tokens=True) *)
Decode(tokens) == FlattenSeq([i \in DOMAIN tokens |-> Piece[tokens[i]]])

(* str.split(), character by character *)
Split(text) ==
    LET words[i \in 0 .. Len(text)] ==
            CASE i = 0 -> <<>>
              [] i > 0 /\ text[i] = Space -> words[i - 1]
              [] i > 0 /\ text[i] # Space /\ (i = 1 \/ text[i - 1] = Space) ->
                     Append(words[i - 1], <<text[i]>>)
              [] OTHER -> [words[i - 1] EXCEPT ![Len(words[i - 1])] = Append(@, text[i])]
    IN words[Len(text)]

(* " ".join(words) *)
Join(words) ==
    FlattenSeq([i \in DOMAIN words |-> IF i = 1 THEN words[i] ELSE <<Space>> \o words[i]])

(* _encode_variants and _encode_forms refuse what does not decode to the   *)
(* form; a tokenizer told to add no special tokens adds none.              *)
Encodings(form) ==
    {e \in BoundedSeq(Token \ {EOS, Pad}, Len(form)) : e # <<>> /\ Decode(e) = form}

GenerationInit ==
    /\ kind \in Kinds
    /\ symbols \in (SUBSET Symbol) \ {{}}
    /\ first \in {f \in [symbols -> UNION {Encodings(s) : s \in symbols}] :
                     \A s \in symbols : f[s] \in Encodings(s)}
    /\ following \in {f \in [symbols -> UNION {Encodings(<<Space>> \o s) : s \in symbols}] :
                         \A s \in symbols : f[s] \in Encodings(<<Space>> \o s)}
    /\ honoured \in BOOLEAN
    /\ generated = <<>> /\ output = <<>> /\ prompt = TRUE
    /\ status = "generating" /\ plan = <<>>

First == {first[s] : s \in symbols}
Following == {following[s] : s \in symbols}
-----------------------------------------------------------------------------
(* The encoder's recognizer searches the positions at which a symbol may   *)
(* end, from the left.                                                     *)

Matches(form, tokens, start) ==
    \A i \in 1 .. Len(form) : start + i <= Len(tokens) => tokens[start + i] = form[i]

FormsAt(start) == IF start = 0 THEN First ELSE Following

Boundaries(tokens) ==
    LET reached[p \in 0 .. Len(tokens)] ==
            p = 0 \/ \E q \in 0 .. p - 1 : reached[q] /\ \E form \in FormsAt(q) :
                        Len(form) = p - q /\ Matches(form, tokens, q)
    IN {p \in 0 .. Len(tokens) : reached[p]}

(* The forms that the tokens from p on have begun and not ended, and the   *)
(* token with which each of them goes on.                                  *)
Open(tokens, p) ==
    {form \in FormsAt(p) : p + Len(form) > Len(tokens) /\ Matches(form, tokens, p)}

Onward(tokens, p) == {form[Len(tokens) - p + 1] : form \in Open(tokens, p)}

EncoderAllowed(tokens) ==
    (UNION {Onward(tokens, p) : p \in Boundaries(tokens)})
    \cup {EOS : p \in (Boundaries(tokens) \ {0}) \cap {Len(tokens)}}

(* The decoder's recognizer carries the symbols under way and the numbers  *)
(* of symbols complete, token by token.                                    *)

Start == [candidates |-> {<<form, 0, 0>> : form \in First}, boundary |-> {}]

(* Mutant: a symbol under way keeps a new one from beginning. *)
ConsumeGreedily(state, token) ==
    LET begun == {<<form, 0, n>> : form \in Following, n \in {m \in state.boundary : m < MaxSymbols}}
        moved == {<<c[1], c[2] + 1, c[3]>> :
                     c \in {c \in IF state.candidates = {} THEN begun ELSE state.candidates :
                               c[1][c[2] + 1] = token}}
    IN [candidates |-> {c \in moved : c[2] < Len(c[1])},
        boundary |-> {c[3] + 1 : c \in {c \in moved : c[2] = Len(c[1])}}]

(* Mutant: the number of symbols is not bounded. *)
ConsumeUnbounded(state, token) ==
    LET begun == {<<form, 0, 0>> : form \in {f \in Following : state.boundary # {}}}
        moved == {<<c[1], c[2] + 1, c[3]>> :
                     c \in {c \in state.candidates \cup begun : c[1][c[2] + 1] = token}}
    IN [candidates |-> {c \in moved : c[2] < Len(c[1])},
        boundary |-> {c[3] + 1 : c \in {c \in moved : c[2] = Len(c[1])}}]

Consume(state, token) ==
    LET begun == {<<form, 0, n>> : form \in Following, n \in {m \in state.boundary : m < MaxSymbols}}
        moved == {<<c[1], c[2] + 1, c[3]>> :
                     c \in {c \in state.candidates \cup begun : c[1][c[2] + 1] = token}}
    IN [candidates |-> {c \in moved : c[2] < Len(c[1])},
        boundary |-> {c[3] + 1 : c \in {c \in moved : c[2] = Len(c[1])}}]

(* The recognizer's state, consumed from the start for every prefix. *)
StateAfter(tokens) ==
    LET state[i \in 0 .. Len(tokens)] == IF i = 0 THEN Start ELSE Consume(state[i - 1], tokens[i])
    IN state[Len(tokens)]

DecoderAllowed(tokens) ==
    LET state == StateAfter(tokens)
    IN {c[1][c[2] + 1] : c \in state.candidates}
       \cup {EOS : n \in state.boundary}
       \cup {form[1] : form \in {f \in Following : \E n \in state.boundary : n < MaxSymbols}}

Allowed(tokens) == IF kind = "encoder" THEN EncoderAllowed(tokens) ELSE DecoderAllowed(tokens)

(* validate_complete *)
Complete(tokens) ==
    /\ \A i \in DOMAIN tokens : tokens[i] \in Allowed(SubSeq(tokens, 1, i - 1))
    /\ EOS \in Allowed(tokens)
-----------------------------------------------------------------------------
(* The library, external.  It gives each next token from those allowed if  *)
(* it honours the recognizer, stops at EOS or at max_new_tokens, and may   *)
(* pad what it returns; if it does not honour it, it returns anything.     *)

Return(tokens) == /\ output' = tokens
                  /\ status' = "returned"

Generate(t) ==
    /\ status = "generating"
    /\ Len(generated) < MaxNewTokens
    /\ t # EOS
    /\ honoured => t \in Allowed(generated)
    /\ generated' = Append(generated, t)
    /\ UNCHANGED <<kind, symbols, first, following, honoured, output, prompt, status, plan>>

Finish ==
    /\ status = "generating"
    /\ Len(generated) < MaxNewTokens
    /\ honoured => EOS \in Allowed(generated)
    /\ \E tail \in {<<>>, <<Pad>>, <<EOS>>} :
          /\ honoured => IF kind = "encoder" THEN tail \in {<<>>, <<Pad>>} ELSE tail = <<>>
          /\ Return(generated \o <<EOS>> \o tail)
    /\ prompt' \in IF honoured \/ kind = "encoder" THEN {TRUE} ELSE BOOLEAN
    /\ UNCHANGED <<kind, symbols, first, following, honoured, generated, plan>>

(* No EOS: at max_new_tokens, or because the recognizer allows nothing, on *)
(* which the encoder's raises an error and the library does for the        *)
(* decoder's.                                                              *)
CanGoOn == Len(generated) < MaxNewTokens /\ (honoured => Allowed(generated) # {})

Truncate ==
    /\ status = "generating"
    /\ ~CanGoOn
    /\ Return(generated)
    /\ UNCHANGED <<kind, symbols, first, following, honoured, generated, prompt, plan>>
-----------------------------------------------------------------------------
(* What the realizers check of the tokens the library returns.             *)

Termination == CHOOSE i \in DOMAIN output :
                  output[i] = EOS /\ \A j \in 1 .. i - 1 : output[j] # EOS
BeforeEOS == SubSeq(output, 1, Termination - 1)
AfterEOS == SubSeq(output, Termination + 1, Len(output))

(* Mutant: the path is not replayed through the recognizer. *)
ReplaySkipped == TRUE

Replay == Complete(BeforeEOS)

(* No more than the allowed symbols, which the recognizer implies. *)
Authorized(words) == words # <<>> /\ Range(words) \subseteq symbols

EncoderAccepts ==
    /\ EOS \in Range(output)
    /\ Replay
    /\ Range(AfterEOS) \subseteq {Pad}
    /\ Authorized(Split(Decode(BeforeEOS)))

DecoderAccepts ==
    /\ prompt
    /\ EOS \in Range(output) /\ AfterEOS = <<>>
    /\ Replay
    /\ LET text == Decode(BeforeEOS) IN
          /\ Authorized(Split(text))
          /\ Len(Split(text)) <= MaxSymbols
          /\ Join(Split(text)) = text

Check ==
    /\ status = "returned"
    /\ LET accepts == IF kind = "encoder" THEN EncoderAccepts ELSE DecoderAccepts IN
          \/ accepts /\ status' = "accepted" /\ plan' = Split(Decode(BeforeEOS))
          \/ ~accepts /\ status' = "refused" /\ UNCHANGED plan
    /\ UNCHANGED <<kind, symbols, first, following, honoured, generated, output, prompt>>

GenerationNext ==
    \/ \E t \in Token : Generate(t)
    \/ Finish \/ Truncate \/ Check

GenerationSpec == GenerationInit /\ [][GenerationNext]_generationVars
-----------------------------------------------------------------------------
(* How training encodes a plan: segmented_symbol_plan_tokens. *)
Target(words) ==
    FlattenSeq([i \in DOMAIN words |-> IF i = 1 THEN first[words[i]] ELSE following[words[i]]])

(* The token sequences of all plans that could extend these tokens. *)
Targets(tokens) ==
    LET length == IF kind = "encoder" THEN Len(tokens) + 1 ELSE MaxSymbols
    IN {Target(words) : words \in BoundedSeq(symbols, length) \ {<<>>}}

Continuations(tokens) ==
    LET longer == {w \in Targets(tokens) : Len(w) > Len(tokens) /\ IsPrefix(tokens, w)}
    IN {w[Len(tokens) + 1] : w \in longer} \cup {EOS : w \in Targets(tokens) \cap {tokens}}

(* What is generated, returned and accepted: tokens before EOS within      *)
(* max_new_tokens, and symbols.                                            *)
GenerationTypeOK ==
    /\ kind \in Kinds /\ symbols \subseteq Symbol
    /\ DOMAIN first = symbols /\ DOMAIN following = symbols
    /\ generated \in Seq(Token \ {EOS}) /\ Len(generated) <= MaxNewTokens
    /\ output \in Seq(Token) /\ Len(output) <= MaxNewTokens + 1
    /\ {honoured, prompt} \subseteq BOOLEAN
    /\ status \in {"generating", "returned", "accepted", "refused"}
    /\ plan \in Seq(Symbol)

(* At every prefix, both recognizers allow exactly the tokens that lead    *)
(* towards the encoding of a plan, and EOS exactly at the end of one,      *)
(* however the symbols' encodings overlap (decoder_lora.py:176-232,        *)
(* encoder_decoder.py:245-272).                                            *)
RecognizersAreExact ==
    status = "generating" => Allowed(generated) = Continuations(generated)

(* An accepted plan consists of allowed symbols, and the tokens returned   *)
(* were exactly its encoding in training and EOS: nothing truncated, no    *)
(* other spelling, no special token that decoding would hide, even when    *)
(* the library ignores the recognizer (decoder_lora.py:234-247, 583-606).  *)
AcceptedIsPlan ==
    status = "accepted" =>
        /\ plan # <<>> /\ Range(plan) \subseteq symbols
        /\ BeforeEOS = Target(plan)
        /\ kind = "decoder" => Len(plan) <= MaxSymbols

(* A library that honours the recognizer is refused only if it was cut off *)
(* by max_new_tokens: generation never gets stuck, and no later check      *)
(* contradicts the recognizer (encoder_decoder.py:220-228).                *)
OnlyTruncationRefuses == status = "refused" /\ honoured => Len(output) = MaxNewTokens /\ EOS \notin Range(output)

(* The encodings of the symbols do not change, and decode to them. *)
TokenizerInv ==
    /\ kind \in Kinds /\ symbols \subseteq Symbol /\ symbols # {}
    /\ \A s \in symbols : first[s] \in Encodings(s) /\ following[s] \in Encodings(<<Space>> \o s)

(* What a library that honours the recognizer has returned. *)
Truncated == output = generated /\ Len(generated) = MaxNewTokens

Ended ==
    /\ EOS \in Allowed(generated)
    /\ \E tail \in {<<>>, <<Pad>>} :
          output = generated \o <<EOS>> \o tail /\ (kind = "decoder" => tail = <<>>)

(* What makes the properties inductive: as long as the recognizer is       *)
(* honoured each token was allowed after those before it, so that there is *)
(* always one allowed next, and what is returned is what was generated.    *)
HonouredInv ==
    honoured =>
        /\ prompt /\ \A i \in DOMAIN generated : generated[i] \in Allowed(SubSeq(generated, 1, i - 1))
        /\ status # "generating" => Truncated \/ Ended

GenerationInv ==
    /\ TokenizerInv /\ GenerationTypeOK /\ HonouredInv
    /\ AcceptedIsPlan /\ OnlyTruncationRefuses
=============================================================================
