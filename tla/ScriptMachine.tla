----------------------------- MODULE ScriptMachine -----------------------------
(***************************************************************************)
(* The machine that decides a spend of a vault coin: one opcode a step, as *)
(* covenantInterpreter.ts executes a covenant against the digest of the    *)
(* real transaction.  The interpreter keeps numbers on a stack of their    *)
(* own; here they are on the one stack, as in the script itself.  What it  *)
(* lacks for the earlier covenant (if, roll and others) is the script      *)
(* language's.                                                             *)
(***************************************************************************)
EXTENDS Scripts

CONSTANT Keys    \* the keys that sign anything

VARIABLES
    script,     \* which covenant the coins are locked with
    spend,      \* the spend that is tried, << >> before
    pc,         \* the next opcode
    stack,      \* stack and numStack
    alt,        \* altstack
    verdict     \* "idle", "running", "accepted" or "rejected"

machineVars == <<script, spend, pc, stack, alt, verdict>>

MachineInit ==
    /\ script \in Covenants
    /\ spend = << >> /\ verdict = "idle"
    /\ pc = 1 /\ stack = << >> /\ alt = << >>

(***************************************************************************)
(* A spend has the transaction and hash type that are broadcast ("real"),  *)
(* what the minter's signature was made over ("over") and the preimage     *)
(* that is presented ("shown"): an honest minter has all the same.  Then   *)
(* the minter's public key, the key that signed, and what entitles to it.  *)
(***************************************************************************)
SpendRecord(real, over, shown, pubkey, key, auth) ==
    [real |-> real, over |-> over, shown |-> shown, pubkey |-> pubkey, key |-> key, auth |-> auth]

Preimage(signing) == getPreimage(signing, LockingScript(script), CoinValue(script))
Verifies(digest, sig, key) == \E k \in Keys : sig = Signature(k, digest) /\ key = PubKey(k)

\* The witness: what every spend presents, and the items of its authorization.
Load(s, items) ==
    /\ verdict = "idle" /\ verdict' = "running"
    /\ spend' = s
    /\ stack' = <<Signature(s.key, HASH256(Preimage(s.over))) \o TypeBytes(s.real.type, 1),
                  PubKey(s.pubkey), Preimage(s.shown)>> \o items
    /\ UNCHANGED <<script, pc, alt>>

-----------------------------------------------------------------------------

Opcode(name) ==
    /\ verdict = "running" /\ pc <= Len(Ops[script])
    /\ Ops[script][pc].op = name
Arg == Ops[script][pc].arg
Top(i) == stack[Len(stack) - i]   \* the i-th item from the top, from 0
Drop(s, n) == SubSeq(s, 1, Len(s) - n)

\* n items give way to some others and the script goes on at an opcode.
GoTo(next, n, items) ==
    /\ Len(stack) >= n
    /\ stack' = Drop(stack, n) \o items
    /\ pc' = next
    /\ UNCHANGED <<script, spend>>
Replace(n, items) == GoTo(pc + 1, n, items) /\ UNCHANGED <<alt, verdict>>
Require(holds) == verdict' = IF holds THEN "running" ELSE "rejected"

Push     == Opcode("push") /\ Replace(0, <<Arg>>)
Dup      == Opcode("dup") /\ Replace(1, <<Top(0), Top(0)>>)
Swap     == Opcode("swap") /\ Replace(2, <<Top(0), Top(1)>>)
Rot      == Opcode("rot") /\ Replace(3, <<Top(1), Top(0), Top(2)>>)
ThreeDup == Opcode("3dup") /\ Replace(3, <<Top(2), Top(1), Top(0), Top(2), Top(1), Top(0)>>)
Sha256   == Opcode("sha256") /\ Replace(1, <<SHA256(Top(0))>>)
Hash256  == Opcode("hash256") /\ Replace(1, <<HASH256(Top(0))>>)
Nip      == Opcode("nip") /\ Replace(2, <<Top(0)>>)
DropTop  == Opcode("drop") /\ Replace(1, << >>)
Cat      == Opcode("cat") /\ Replace(2, <<Top(1) \o Top(0)>>)
Equal    == Opcode("equal") /\ Replace(2, <<Truth(Top(0) = Top(1))>>)
Size     == Opcode("size") /\ Replace(1, <<Top(0), Number(Width(Top(0)))>>)

Sub      == Opcode("sub") /\ Replace(2, <<Number(NumberOf(Top(1)) - NumberOf(Top(0)))>>)
OneSub   == Opcode("1sub") /\ Replace(1, <<Number(NumberOf(Top(0)) - 1)>>)
LessThan == Opcode("lessthan") /\ Replace(2, <<Truth(NumberOf(Top(1)) < NumberOf(Top(0)))>>)
Roll ==
    /\ Opcode("roll") /\ Len(stack) >= NumberOf(Top(0)) + 2
    /\ LET n == NumberOf(Top(0))
       IN  Replace(n + 2, [i \in 1..n |-> Top(n + 1 - i)] \o <<Top(n + 1)>>)

\* A position that is no number, or none in the item, fails the script.
Split ==
    /\ Opcode("split")
    /\ IF IsNumber(Top(0)) /\ NumberOf(Top(0)) \in 0..Width(Top(1))
         THEN Replace(2, <<First(Top(1), NumberOf(Top(0))), Rest(Top(1), NumberOf(Top(0)))>>)
         ELSE GoTo(pc + 1, 2, << >>) /\ verdict' = "rejected" /\ UNCHANGED alt

If ==
    /\ Opcode("if")
    /\ LET endif == CHOOSE i \in DOMAIN Ops[script] :
                        /\ i > pc /\ Ops[script][i].op = "endif"
                        /\ \A j \in (pc + 1)..(i - 1) : Ops[script][j].op # "endif"
       IN  GoTo(IF Top(0) = Truth(TRUE) THEN pc + 1 ELSE endif + 1, 1, << >>)
    /\ UNCHANGED <<alt, verdict>>
EndIf == Opcode("endif") /\ Replace(0, << >>)

ToAltStack ==
    /\ Opcode("toaltstack") /\ GoTo(pc + 1, 1, << >>)
    /\ alt' = Append(alt, Top(0)) /\ UNCHANGED verdict
FromAltStack ==
    /\ Opcode("fromaltstack") /\ alt # << >>
    /\ GoTo(pc + 1, 0, <<alt[Len(alt)]>>)
    /\ alt' = Drop(alt, 1) /\ UNCHANGED verdict

EqualVerify ==
    /\ Opcode("equalverify") /\ GoTo(pc + 1, 2, << >>)
    /\ Require(Top(0) = Top(1)) /\ UNCHANGED alt
CheckDataSigVerify ==
    /\ Opcode("checkdatasigverify") /\ GoTo(pc + 1, 3, << >>)
    /\ Require(Verifies(SHA256(Top(1)), Top(2), Top(0))) /\ UNCHANGED alt

\* The digest is the node's own, of the transaction it was given.
CheckSig ==
    /\ Opcode("checksig") /\ GoTo(pc + 1, 2, << >>)
    /\ verdict' = IF Verifies(HASH256(Preimage(spend.real)), First(Top(1), Width(Top(1)) - 1), Top(0))
                    THEN "accepted" ELSE "rejected"
    /\ UNCHANGED alt

runCovenant ==
    \/ Push \/ Dup \/ Swap \/ Rot \/ ThreeDup \/ Sha256 \/ Hash256 \/ Nip \/ DropTop \/ Cat
    \/ Equal \/ Size \/ Sub \/ OneSub \/ LessThan \/ Roll \/ Split \/ If \/ EndIf
    \/ ToAltStack \/ FromAltStack \/ EqualVerify \/ CheckDataSigVerify \/ CheckSig

\* Every spend comes to a verdict: no opcode is left without its operands, and the last
\* one decides.
EverySpendDecided == verdict = "running" ~> verdict \in {"accepted", "rejected"}
=============================================================================
