------------------------------ MODULE GlobMatch ------------------------------
(***************************************************************************)
(* The topic matcher of the message bus, `is_matching(topic, pattern)`     *)
(* (component.pyx), which forwards to the native `is_matching_ffi`.        *)
(* A topic and a pattern are sequences of characters; in a pattern `*`     *)
(* matches zero or more characters and `?` exactly one, every other        *)
(* character only itself.  The native matcher is the canonical            *)
(* backtracking glob; IsMatching is its recursive form.                    *)
(***************************************************************************)
EXTENDS Naturals, Sequences

Star     == "*"
Question == "?"

(* is_matching_ffi(topic, pattern): first argument the topic, second the   *)
(* pattern that may hold wildcards.                                        *)
RECURSIVE IsMatching(_, _)
IsMatching(topic, pattern) ==
  IF pattern = <<>> THEN topic = <<>>
  ELSE IF Head(pattern) = Star
       THEN \/ IsMatching(topic, Tail(pattern))
            \/ topic # <<>> /\ IsMatching(Tail(topic), pattern)
       ELSE /\ topic # <<>>
            /\ Head(pattern) \in {Question, Head(topic)}
            /\ IsMatching(Tail(topic), Tail(pattern))
=============================================================================
