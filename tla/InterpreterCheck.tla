-------------------------- MODULE InterpreterCheck --------------------------
(***************************************************************************)
(* Interpreter compared with JoySemantics.                                 *)
(***************************************************************************)
EXTENDS Interpreter

(* A name that is not defined yet does nothing. *)
Joy == INSTANCE JoySemantics WITH
         definitions <- [s \in Names |-> IF s <= defs THEN Prelude[s] ELSE <<>>]

(* joy_eval_string executes the term with the term itself on the stack. *)
Start   == IF frontend = "repl" THEN before
           ELSE << <<"LIST", Joy!Parse(text)>> >> \o before
Meaning == Joy!Run(Joy!Parse(text), Start)

(* A command leaves the stack that its program means, whatever was         *)
(* collected on the way, and does not end when an error should be raised,  *)
(* unless it executes a bad node, which is reported and not raised.        *)
ResultsCorrect ==
  Finished /\ ~aborted => Meaning.ok /\ Denote(root.stck) = Meaning.stack

(* An error is raised only for a program that has none. *)
ErrorsExpected == aborted /\ Idle => ~Meaning.ok

(* Definitions are permanent (src/utils.c:85): no command, error,          *)
(* collection or later definition changes the program that was read.       *)
DefinitionsIntact ==
  \A s \in Names :
    s <= defs /\ s # defining => Denote(body[s]) = Joy!Parse(Prelude[s])

=============================================================================
