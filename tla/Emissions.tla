-------------------------------- MODULE Emissions --------------------------------
(***************************************************************************)
(* The documents of a payload, sent side by side: the interleaving and the *)
(* numbering of TranslationPipeline.emitDocument, whatever it translates a *)
(* document to.  Each call translates and validates its document without   *)
(* an await, and then draws the three control numbers of its interchange   *)
(* one await after another, while the other documents do the same          *)
(* (Promise.all of IntegrationOrchestrator).                               *)
(***************************************************************************)
EXTENDS Integers, Sequences, SequencesExt

CONSTANTS
    Payloads,         \* sequences of documents a customer sends
    Translation(_),   \* the body a document is translated to
    Rejected(_),      \* whether emitDocument throws before its first await
    Modulus           \* [isa, st]: where the padded control numbers wrap

ASSUME ModulusAssumption == Modulus.isa \in Nat \ {0} /\ Modulus.st \in Nat \ {0}

VARIABLES
    emissions,   \* the emitDocument calls of a payload
    counted      \* how many numbers were drawn of each scope of the relationship

emissionVars == <<emissions, counted>>

-------------------------------------------------------------------------------
EmissionInit ==
    /\ emissions = <<>>
    /\ counted = [isa |-> 0, gs |-> 0, st |-> 0]

(* The documents sent so far and this one begin a payload.                 *)
Sends(job) ==
    LET jobs == Append([e \in DOMAIN emissions |-> emissions[e].job], job)
    IN  \E payload \in Payloads : IsPrefix(jobs, payload)

(* A fault of emitDocument: the first number is drawn before the emit.     *)
StartEmissionDrawingFirst(job) ==
    /\ Sends(job)
    /\ emissions' = Append(emissions,
           [pc |-> IF Rejected(job) THEN "failed" ELSE "gs", job |-> job,
            body |-> Translation(job), isa |-> counted.isa + 1, gs |-> 0, st |-> 0])
    /\ counted' = [counted EXCEPT !.isa = @ + 1]

(* One more document of the payload: select configuration, map and         *)
(* specification, emit, validate (the findings go to the caller).  What    *)
(* throws ends before any number is drawn.                                 *)
StartEmission(job) ==
    /\ Sends(job)
    /\ emissions' = Append(emissions,
           [pc |-> IF Rejected(job) THEN "failed" ELSE "isa", job |-> job,
            body |-> Translation(job), isa |-> 0, gs |-> 0, st |-> 0])
    /\ UNCHANGED counted

Following == [isa |-> "gs", gs |-> "st", st |-> "sent"]

(* The next number of a scope; after the third, the interchange is built.  *)
DrawNumber(e, scope) ==
    /\ emissions[e].pc = scope
    /\ emissions' = [emissions EXCEPT ![e].pc = Following[scope],
                                      ![e][scope] = counted[scope] + 1]
    /\ counted' = [counted EXCEPT ![scope] = @ + 1]

EmissionNext ==
    \/ \E payload \in Payloads : \E job \in ToSet(payload) : StartEmission(job)
    \/ \E e \in DOMAIN emissions, scope \in DOMAIN counted : DrawNumber(e, scope)

EmissionSpec == EmissionInit /\ [][EmissionNext]_emissionVars

-------------------------------------------------------------------------------
(* The numbers drawn so far are counted, and an emission has one of each   *)
(* scope it is past.                                                       *)
EmissionTypeOK ==
    /\ counted \in [{"isa", "gs", "st"} -> Nat]
    /\ \A e \in DOMAIN emissions :
          /\ \E payload \in Payloads : emissions[e].job \in ToSet(payload)
          /\ emissions[e].pc \in {"isa", "gs", "st", "sent", "failed"}
          /\ \A scope \in DOMAIN counted : emissions[e][scope] \in 0..counted[scope]

Sent == {e \in DOMAIN emissions : emissions[e].pc = "sent"}

(* padZero and nextPadded: the last digits of a number, width of them.     *)
Padded(number, modulus) == [no |-> number % modulus]

(* The control numbers of the interchange that emission e has sent.        *)
ControlOf(e) == [isa13 |-> Padded(emissions[e].isa, Modulus.isa),
                 gs06 |-> [no |-> emissions[e].gs],
                 st02 |-> Padded(emissions[e].st, Modulus.st)]

(* However the draws of the documents of a payload interleave: the numbers *)
(* of a scope are drawn without a gap and for documents that did not fail, *)
(* two interchanges share none of them, and the padded ISA13 repeats only  *)
(* after a whole cycle.                                                    *)
NumbersTellInterchangesApart ==
    /\ LET going == {e \in DOMAIN emissions : emissions[e].pc # "failed"}
       IN  \A scope \in DOMAIN counted :
              {emissions[e][scope] : e \in going} \ {0} = 1..counted[scope]
    /\ \A e, f \in Sent : \A scope \in DOMAIN counted :
          e # f => emissions[e][scope] # emissions[f][scope]
    /\ \A e, f \in Sent :
          ControlOf(e).isa13 = ControlOf(f).isa13 /\ emissions[e].isa < emissions[f].isa
          => emissions[f].isa - emissions[e].isa >= Modulus.isa
=================================================================================
