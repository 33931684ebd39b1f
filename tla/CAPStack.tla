----------------------------- MODULE CAPStack -----------------------------
(***************************************************************************)
(* CAPStack.c: a stack is a linked list whose first node is the top, so    *)
(* here a sequence whose head is the top.  CAPLinkedList implements        *)
(* sequences; its cursor, which a stack does not use, is left out.         *)
(***************************************************************************)
EXTENDS Sequences

Create == <<>>

Length(stack) == Len(stack)

Push(stack, data) == <<data>> \o stack

Answer(stack, result, data) == [stack |-> stack, result |-> result, data |-> data]

Top(stack) == IF Length(stack) = 0 THEN Answer(stack, "NO_DATA", <<>>)
              ELSE Answer(stack, "NOERROR", <<Head(stack)>>)

Pop(stack) == IF Length(stack) = 0 THEN Answer(stack, "NO_DATA", <<>>)
              ELSE Answer(Tail(stack), "NOERROR", <<Head(stack)>>)

\* while(CAPStack_Pop(...) == ERR_CAP_NOERROR): what comes off, the top first.
PopAll(stack) == Answer(Create, "NO_DATA", stack)

\* The same data pushed again, the last that came off first.
PushAll(stack, data) == data \o stack
=============================================================================
