------------------------------ MODULE WholeFiles ------------------------------
(***************************************************************************)
(* What the filer promises its clients: whole files that a PUT replaces at *)
(* one moment, or not at all.  Filer implements this with a temporary file *)
(* and one system call after the other.                                    *)
(*                                                                         *)
(* A PUT takes effect when it ends, and only then.  A GET delivers what    *)
(* the file had when the GET opened it, whatever becomes of the file.      *)
(* After a power failure all files are as they were together at one moment *)
(* before.  Nothing is promised of a file that two PUTs replaced together, *)
(* or that was written in part, until a PUT replaces it.                   *)
(***************************************************************************)
EXTENDS Integers, Sequences

CONSTANTS Files, Clients,
          Brought, \* what PUTs bring
          NoFile

VARIABLES
  now,       \* what each file has
  then,      \* what it will have after a power failure
  puts,      \* the PUT of each client
  gets       \* its GET

vars == <<now, then, puts, gets>>

Missing  == [is |-> "missing", body |-> <<>>]
Loose    == [is |-> "loose",   body |-> <<>>]  \* nothing is promised
Whole(b) == [is |-> "whole",   body |-> b]

NoPut == [at |-> "none", file |-> NoFile, body |-> <<>>]
NoGet == [of |-> Missing, start |-> 0, done |-> <<>>]

Init ==
  /\ now = [f \in Files |-> Missing] /\ then = now
  /\ puts = [c \in Clients |-> NoPut]
  /\ gets = [c \in Clients |-> NoGet]

-----------------------------------------------------------------------------
(* PUT *)

\* The others that are replacing file f.
Rivals(c, f) == {d \in Clients \ {c} : puts[d].at # "none" /\ puts[d].file = f}

\* The PUT of c becomes p, which may disturb those that replace f too.
Puts(c, f, p) ==
  \E ds \in SUBSET Rivals(c, f) :
    puts' = [d \in Clients |-> IF d = c THEN p
                               ELSE IF d \in ds THEN [puts[d] EXCEPT !.at = "shared"]
                               ELSE puts[d]]

BeginPut(c, f) ==
  LET p == puts'[c]
  IN /\ puts[c] = NoPut
     /\ p.file = f /\ p.body \in Brought /\ p.at \in {"alone", "shared"}
     /\ p.at = "shared" => Rivals(c, f) # {}
     /\ Puts(c, f, p)
     /\ UNCHANGED <<now, then, gets>>

EndPut(c, f) ==
  /\ puts[c].at # "none" /\ puts[c].file = f
  /\ Puts(c, f, NoPut)
  /\ \/ puts[c].at = "alone" /\ now' = [now EXCEPT ![f] = Whole(puts[c].body)]
     \/ puts[c].at = "shared" /\ now' \in {now, [now EXCEPT ![f] = Loose]}
  /\ UNCHANGED <<then, gets>>

FailPut(c) ==
  /\ puts[c].at # "none"
  /\ puts' = [puts EXCEPT ![c] = NoPut]
  /\ UNCHANGED <<now, then, gets>>

\* A PUT with a range: what f has is not whole any more, wherever else it is known.
Patch(f) ==
  /\ UNCHANGED puts
  /\ now' = [now EXCEPT ![f] = Loose]
  /\ \E gs \in SUBSET {g \in Files : then[g] = now[f] /\ now[f] # Missing},
        cs \in SUBSET {c \in Clients : gets[c].of = now[f] /\ now[f] # Missing} :
       /\ then' = [g \in Files |-> IF g \in gs THEN Loose ELSE then[g]]
       /\ gets' = [c \in Clients |-> IF c \in cs THEN [gets[c] EXCEPT !.of = Loose]
                                     ELSE gets[c]]

-----------------------------------------------------------------------------
(* GET, PATCH, DELETE *)

OpenGet(c, f) ==
  /\ gets[c] = NoGet /\ now[f] # Missing
  /\ gets'[c].of = now[f] /\ gets'[c].done = <<>>
  /\ gets' = [gets EXCEPT ![c] = gets'[c]]
  /\ UNCHANGED <<now, then, puts>>

\* The next byte is delivered.
Serve(c) ==
  LET g == gets[c]
      k == Len(g.done) + 1
      d == gets'[c].done
  IN /\ g # NoGet
     /\ Len(d) = k /\ d = Append(g.done, d[k])
     /\ g.of # Loose => g.start + k <= Len(g.of.body) /\ d[k] = g.of.body[g.start + k]
     /\ gets' = [gets EXCEPT ![c].done = d]
     /\ UNCHANGED <<now, then, puts>>

EndGet(c) ==
  /\ gets[c] # NoGet
  /\ gets' = [gets EXCEPT ![c] = NoGet]
  /\ UNCHANGED <<now, then, puts>>

Move(f, g) ==
  /\ now[f] # Missing
  /\ now' = [now EXCEPT ![f] = Missing, ![g] = now[f]]
  /\ UNCHANGED <<then, puts, gets>>

Remove(f) ==
  /\ now[f] # Missing
  /\ now' = [now EXCEPT ![f] = Missing]
  /\ UNCHANGED <<then, puts, gets>>

-----------------------------------------------------------------------------
(* Failures *)

Commit ==
  /\ then' = now
  /\ UNCHANGED <<now, puts, gets>>

PowerFailure ==
  /\ now' = then
  /\ puts' = [c \in Clients |-> NoPut]
  /\ gets' = [c \in Clients |-> NoGet]
  /\ UNCHANGED then

\* A step of a client changes its PUT or its GET, and one on a file what that has.
Next ==
  \/ \E c \in Clients : /\ puts'[c] # puts[c]
                        /\ FailPut(c) \/ \E f \in Files : BeginPut(c, f) \/ EndPut(c, f)
  \/ \E c \in Clients : /\ gets'[c] # gets[c]
                        /\ Serve(c) \/ EndGet(c) \/ \E f \in Files : OpenGet(c, f)
  \/ \E f \in Files : /\ now'[f] # now[f]
                      /\ Patch(f) \/ Remove(f) \/ \E g \in Files : Move(f, g)
  \/ Commit
  \/ PowerFailure

Spec == Init /\ [][Next]_vars
=============================================================================
