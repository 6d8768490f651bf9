---------------------- MODULE ExecutionPreventorProofs ----------------------
(***************************************************************************)
(* Theorems about ExecutionPreventor: types, the owner of the listener, what *)
(* callbacks that began after start do with the string they share, and what  *)
(* it takes to use what is deleted.                                          *)
(***************************************************************************)
EXTENDS ExecutionPreventor, TLAPS

\* The String start made last is the one the kernel and start know.
Newest == Len(strings)

\* startImp keeps its string until it returns.
SubIsHeld ==
    kext \in {"copy", "listen", "wrap", "publish", "destroy", "dropStarted", "dropFailed"}
    \/ (kext \in {"free", "unlisten"} /\ ~context)
        => sub \in 1..Len(blocks)

\* From its creation until FreeData the newest String lives.
NewestLives ==
    /\ kext \in {"listen", "wrap", "publish", "destroy", "free", "unlisten"} => Newest > 0
    /\ kext \in {"listen", "wrap", "publish", "destroy", "free"} => strings[Newest].live

\* Which steps of start and stop have a listener, which a g_context.
OwnerKnown ==
    /\ kext \in {"wrap", "publish", "free", "unlisten"} => listener = Newest
    /\ kext \in {"unloaded", "copy", "listen", "destroy", "dropFailed"} => listener = Nothing
    /\ kext \in {"unloaded", "copy", "listen", "wrap", "publish", "destroy", "dropFailed"}
           => ~context
    /\ kext \in {"dropStarted", "started"} => (listener # Nothing <=> context)

\* What the kernel passes is the newest String, alive but for one step.
ListenerIsNewest ==
    listener # Nothing => /\ listener = Newest
                          /\ kext # "unlisten" => strings[listener].live

\* A callback under way has its String, and the blocks it works on.
CallbackHasData ==
    \A c \in Callbacks :
        /\ pc[c] # "idle" => arg[c] \in 1..Len(strings)
        /\ pc[c] \in {"reset", "install"} => fresh[c] \in 1..Len(blocks)
        /\ pc[c] = "compare" => buf[c] \in 1..Len(blocks)

OwnerInv == SubIsHeld /\ NewestLives /\ OwnerKnown /\ ListenerIsNewest

IInv == TypeOK /\ CallbackHasData /\ OwnerInv

AString == [live : BOOLEAN, block : Nat]
ABlock  == [live : BOOLEAN, count : Int]

\* The tuples of variables, and 0 for none, are always expanded.
USE DEF Nothing, starter, runner, heap

-----------------------------------------------------------------------------
(* What the operations of SharedPtr do to the blocks.                        *)

\* A changed sequence keeps its length, its other elements and its type.
LEMMA ExceptKeeps ==
    ASSUME NEW S, NEW s \in Seq(S), NEW i \in 1..Len(s), NEW e \in S
    PROVE  LET t == [s EXCEPT ![i] = e]
           IN  /\ t \in Seq(S) /\ Len(t) = Len(s) /\ t[i] = e
               /\ \A j \in 1..Len(s) : j # i => t[j] = s[j]
    OBVIOUS

\* A new element goes behind the others.
LEMMA AppendKeeps ==
    ASSUME NEW S, NEW s \in Seq(S), NEW e \in S
    PROVE  LET t == Append(s, e)
           IN  /\ t \in Seq(S) /\ Len(t) = Len(s) + 1 /\ t[Len(t)] = e
               /\ \A j \in 1..Len(s) : t[j] = s[j]
    OBVIOUS

\* makeShared adds one block, and only while MaxBlocks allows it.
LEMMA NewBlockAdds ==
    ASSUME blocks \in Seq(ABlock), NewBlock
    PROVE  blocks' \in Seq(ABlock) /\ Len(blocks') = Len(blocks) + 1
    BY AppendKeeps DEF NewBlock, ABlock

\* Counting up keeps the blocks.
LEMMA RetainKeeps ==
    ASSUME blocks \in Seq(ABlock), NEW b \in 1..Len(blocks), Retain(b)
    PROVE  blocks' \in Seq(ABlock) /\ Len(blocks') = Len(blocks)
<1> DEFINE e == [blocks[b] EXCEPT !.count = @ + 1]
<1>1. blocks[b] \in ABlock
    OBVIOUS
<1>2. e \in ABlock
    BY <1>1 DEF ABlock
<1>3. blocks' = [blocks EXCEPT ![b] = e]
    BY DEF Retain
<1> QED
    BY <1>2, <1>3, ExceptKeeps

\* Counting down keeps them too, deleted or not.
LEMMA DropKeeps ==
    ASSUME blocks \in Seq(ABlock), NEW b \in 1..Len(blocks), Drop(b)
    PROVE  blocks' \in Seq(ABlock) /\ Len(blocks') = Len(blocks)
<1> DEFINE left == blocks[b].count - 1
           e == [live |-> blocks[b].live /\ left > 0, count |-> left]
<1>1. blocks[b] \in ABlock
    OBVIOUS
<1>2. e \in ABlock
    BY <1>1 DEF ABlock
<1>3. blocks' = [blocks EXCEPT ![b] = e]
    BY DEF Drop
<1> QED
    BY <1>2, <1>3, ExceptKeeps

\* So does a reset, whatever it counts down.
LEMMA ReleaseKeeps ==
    ASSUME blocks \in Seq(ABlock), NEW b \in 1..Len(blocks), damaged \in BOOLEAN, Release(b)
    PROVE  blocks' \in Seq(ABlock) /\ Len(blocks') = Len(blocks) /\ damaged' \in BOOLEAN
<1>1. CASE blocks[b].live /\ Drop(b) /\ UNCHANGED damaged
  BY <1>1, DropKeeps
<1>2. CASE ~blocks[b].live /\ (\E a \in AtAddress(b) : Drop(a)) /\ damaged' = TRUE
  <2>1. PICK a \in AtAddress(b) : Drop(a)
    BY <1>2
  <2>2. a \in 1..Len(blocks)
    BY DEF AtAddress
  <2> QED
    BY <1>2, <2>1, <2>2, DropKeeps
<1> QED
  BY <1>1, <1>2 DEF Release

-----------------------------------------------------------------------------
(* Every step keeps the invariant.                                         *)

\* A String keeps its block in range when blocks are added or counted.
LEMMA BlocksInRange ==
    ASSUME TypeOK, blocks' \in Seq(ABlock), Len(blocks') >= Len(blocks),
           UNCHANGED strings
    PROVE  \A s \in 1..Len(strings') : strings'[s].block \in 1..Len(blocks')
BY DEF TypeOK, ABlock

\* Start and stop touch no callback: what they work on stays in range.
LEMMA RunnersUndisturbed ==
    ASSUME TypeOK, CallbackHasData, UNCHANGED runner,
           Len(strings') \in Nat, Len(strings') >= Len(strings),
           Len(blocks') \in Nat, Len(blocks') >= Len(blocks)
    PROVE  CallbackHasData'
BY DEF TypeOK, CallbackHasData

\* Nor do they leave the types of what callbacks have.
LEMMA RunnerTypes ==
    ASSUME TypeOK, UNCHANGED runner,
           Len(strings') \in Nat, Len(strings') >= Len(strings),
           Len(blocks') \in Nat, Len(blocks') >= Len(blocks)
    PROVE  /\ pc' \in [Callbacks -> Labels]
           /\ arg' \in [Callbacks -> 0..Len(strings')]
           /\ path' \in [Callbacks -> Paths]
           /\ fresh' \in [Callbacks -> 0..Len(blocks')]
           /\ buf' \in [Callbacks -> 0..Len(blocks')]
           /\ verdict' \in [Callbacks -> {"deny", "defer"}]
           /\ settled' \in [Callbacks -> BOOLEAN]
<1>1. 0..Len(strings) \subseteq 0..Len(strings') /\ 0..Len(blocks) \subseteq 0..Len(blocks')
  BY DEF TypeOK
<1> QED
  BY <1>1 DEF TypeOK

\* The steps of start and stop that change neither Strings nor blocks.
LEMMA PlainStartSteps ==
    ASSUME IInv,
           \/ CopyDataFails \/ Listen \/ ListenFails \/ Wrap \/ WrapFails
           \/ Publish \/ PublishFails \/ Stop \/ Unlisten
    PROVE  IInv'
<1>1. UNCHANGED <<strings, blocks, damaged, raced, runner>>
  BY DEF CopyDataFails, Listen, ListenFails, Wrap, WrapFails, Publish, PublishFails,
         Stop, Unlisten
<1>2. Len(strings) \in Nat /\ Len(blocks) \in Nat /\ context \in BOOLEAN
  BY DEF IInv, TypeOK
<1>3. TypeOK'
  <2>1. kext' \in KextLabels /\ context' \in BOOLEAN
    BY <1>2 DEF KextLabels, CopyDataFails, Listen, ListenFails, Wrap, WrapFails, Publish, PublishFails,
         Stop, Unlisten
  <2>2. listener' \in 0..Len(strings) /\ sub' \in 0..Len(blocks)
    BY <1>2 DEF IInv, TypeOK, CopyDataFails, Listen, ListenFails, Wrap, WrapFails, Publish, PublishFails,
         Stop, Unlisten
  <2> QED
    BY <1>1, <1>2, <2>1, <2>2, RunnerTypes DEF IInv, TypeOK
<1>4. CallbackHasData'
  BY <1>1, <1>2, RunnersUndisturbed DEF IInv
<1>5. OwnerInv'
  <2> USE DEF IInv, OwnerInv, SubIsHeld, NewestLives, OwnerKnown, ListenerIsNewest, Newest
  <2>1. CASE CopyDataFails
    BY <1>1, <1>2, <2>1 DEF CopyDataFails
  <2>2. CASE Listen
    BY <1>1, <1>2, <2>2 DEF Listen
  <2>3. CASE ListenFails
    BY <1>1, <1>2, <2>3 DEF ListenFails
  <2>4. CASE Wrap
    BY <1>1, <1>2, <2>4 DEF Wrap
  <2>5. CASE WrapFails
    BY <1>1, <1>2, <2>5 DEF WrapFails
  <2>6. CASE Publish
    BY <1>1, <1>2, <2>6 DEF Publish
  <2>7. CASE PublishFails
    BY <1>1, <1>2, <2>7 DEF PublishFails
  <2>8. CASE Stop
    BY <1>1, <1>2, <2>8 DEF Stop
  <2>9. CASE Unlisten
    BY <1>1, <1>2, <2>9 DEF Unlisten
  <2> QED
    BY <2>1, <2>2, <2>3, <2>4, <2>5, <2>6, <2>7, <2>8, <2>9
<1> QED
  BY <1>3, <1>4, <1>5 DEF IInv

\* subString is made: the only String::Data start has.
LEMMA StartStepInv ==
    ASSUME IInv, Start
    PROVE  IInv'
<1>1. UNCHANGED <<strings, damaged, raced, runner, context, listener>> /\ kext = "unloaded"
      /\ kext' = "copy" /\ sub' = Len(blocks) + 1
  BY DEF Start
<1>2. /\ Len(strings) \in Nat /\ Len(blocks) \in Nat /\ context \in BOOLEAN
      /\ blocks' \in Seq(ABlock) /\ Len(blocks') = Len(blocks) + 1
  BY NewBlockAdds DEF IInv, TypeOK, ABlock, Start
<1>3. TypeOK'
  BY <1>1, <1>2, RunnerTypes, BlocksInRange, SMTT(60) DEF IInv, TypeOK, KextLabels, ABlock
<1>4. CallbackHasData'
  BY <1>1, <1>2, RunnersUndisturbed DEF IInv
<1>5. OwnerInv'
  BY <1>1, <1>2 DEF IInv, OwnerInv, SubIsHeld, NewestLives, OwnerKnown, ListenerIsNewest, Newest
<1> QED
  BY <1>3, <1>4, <1>5 DEF IInv

\* The copy becomes the newest String; nobody listens yet.
LEMMA CopyDataInv ==
    ASSUME IInv, CopyData
    PROVE  IInv'
<1> DEFINE e == [live |-> TRUE, block |-> sub]
<1>1. /\ UNCHANGED <<damaged, raced, runner, context, listener, sub>>
      /\ kext = "copy" /\ kext' = "listen"
      /\ strings' = Append(strings, e) /\ Retain(sub)
  BY DEF CopyData
<1>2. /\ Len(strings) \in Nat /\ Len(blocks) \in Nat /\ context \in BOOLEAN
      /\ strings \in Seq(AString) /\ blocks \in Seq(ABlock)
      /\ sub \in 1..Len(blocks) /\ listener = 0 /\ ~context
  BY <1>1 DEF IInv, TypeOK, AString, ABlock, OwnerInv, SubIsHeld, OwnerKnown
<1>3. blocks' \in Seq(ABlock) /\ Len(blocks') = Len(blocks)
  BY <1>1, <1>2, RetainKeeps
<1>4. e \in AString
  BY <1>2 DEF AString
<1>5. /\ strings' \in Seq(AString) /\ Len(strings') = Len(strings) + 1
      /\ strings'[Len(strings')] = e
      /\ \A j \in 1..Len(strings) : strings'[j] = strings[j]
  BY <1>1, <1>2, <1>4, AppendKeeps
<1>6. \A s \in 1..Len(strings') : strings'[s].block \in 1..Len(blocks')
  <2> SUFFICES ASSUME NEW s \in 1..Len(strings')
               PROVE  strings'[s].block \in 1..Len(blocks')
    OBVIOUS
  <2>1. CASE s = Len(strings')
    BY <2>1, <1>2, <1>3, <1>5
  <2>2. CASE s # Len(strings')
    <3>1. s \in 1..Len(strings)
      BY <2>2, <1>2, <1>5
    <3> QED
      BY <3>1, <1>3, <1>5 DEF IInv, TypeOK
  <2> QED
    BY <2>1, <2>2
<1>7. TypeOK'
  <2>1. /\ pc' \in [Callbacks -> Labels] /\ arg' \in [Callbacks -> 0..Len(strings')]
        /\ path' \in [Callbacks -> Paths] /\ fresh' \in [Callbacks -> 0..Len(blocks')]
        /\ buf' \in [Callbacks -> 0..Len(blocks')]
        /\ verdict' \in [Callbacks -> {"deny", "defer"}]
        /\ settled' \in [Callbacks -> BOOLEAN]
    <3>1. /\ Len(strings') \in Nat /\ Len(strings') >= Len(strings)
          /\ Len(blocks') \in Nat /\ Len(blocks') >= Len(blocks)
      BY <1>2, <1>3, <1>5
    <3> QED
      BY <1>1, <3>1, RunnerTypes DEF IInv
  <2>2. /\ kext' \in KextLabels /\ context' \in BOOLEAN /\ listener' \in 0..Len(strings')
        /\ sub' \in 0..Len(blocks')
    BY <1>1, <1>2, <1>3, <1>5 DEF KextLabels
  <2> QED
    BY <1>1, <1>3, <1>5, <1>6, <2>1, <2>2 DEF IInv, TypeOK, AString, ABlock
<1>8. CallbackHasData'
  BY <1>1, <1>2, <1>3, <1>5, RunnersUndisturbed DEF IInv
<1>9. OwnerInv'
  BY <1>1, <1>2, <1>3, <1>5 DEF OwnerInv, SubIsHeld, NewestLives, OwnerKnown,
         ListenerIsNewest, Newest
<1> QED
  BY <1>7, <1>8, <1>9 DEF IInv

\* startImp returns: its reference was the only thing left to give back.
LEMMA DropSubInv ==
    ASSUME IInv, DropSub
    PROVE  IInv'
<1>1. /\ UNCHANGED <<strings, raced, runner, context, listener>> /\ sub' = 0 /\ Release(sub)
      /\ kext \in {"dropStarted", "dropFailed"}
      /\ kext' = IF kext = "dropStarted" THEN "started" ELSE "unloaded"
  BY DEF DropSub
<1>2. /\ Len(strings) \in Nat /\ Len(blocks) \in Nat /\ context \in BOOLEAN
      /\ blocks \in Seq(ABlock) /\ sub \in 1..Len(blocks) /\ damaged \in BOOLEAN
  BY <1>1 DEF IInv, TypeOK, ABlock, OwnerInv, SubIsHeld
<1>3. blocks' \in Seq(ABlock) /\ Len(blocks') = Len(blocks) /\ damaged' \in BOOLEAN
  BY <1>1, <1>2, ReleaseKeeps
<1>4. TypeOK'
  <2>1. kext' \in KextLabels /\ sub' \in 0..Len(blocks')
    BY <1>1, <1>2, <1>3 DEF KextLabels
  <2> QED
    BY <2>1, <1>1, <1>2, <1>3, RunnerTypes, BlocksInRange DEF IInv, TypeOK, ABlock
<1>5. CallbackHasData'
  BY <1>1, <1>2, <1>3, RunnersUndisturbed DEF IInv
<1>6. OwnerInv'
  BY <1>1, <1>2 DEF IInv, OwnerInv, SubIsHeld, NewestLives, OwnerKnown, ListenerIsNewest, Newest
<1> QED
  BY <1>4, <1>5, <1>6 DEF IInv

\* The newest String dies: nobody listens, or "unlisten" is next.
LEMMA FreeDataInv ==
    ASSUME IInv, FreeData
    PROVE  IInv'
<1> DEFINE n == Len(strings)
           e == [strings[n] EXCEPT !.live = FALSE]
<1>1. /\ UNCHANGED <<runner, context, listener, sub>> /\ Reset(n)
      /\ kext \in {"free", "destroy"}
      /\ kext' = IF kext = "free" THEN "unlisten" ELSE "dropFailed"
      /\ strings' = [strings EXCEPT ![n].live = FALSE]
  BY DEF FreeData
<1>2. /\ n \in Nat /\ Len(blocks) \in Nat /\ context \in BOOLEAN /\ n \in 1..n
      /\ strings \in Seq(AString) /\ blocks \in Seq(ABlock)
      /\ strings[n] \in AString /\ strings[n].block \in 1..Len(blocks)
  <2>1. /\ strings \in Seq(AString) /\ blocks \in Seq(ABlock) /\ context \in BOOLEAN
        /\ \A s \in 1..Len(strings) : strings[s].block \in 1..Len(blocks)
    BY DEF IInv, TypeOK, AString, ABlock
  <2>2. n \in Nat /\ n > 0
    BY <1>1, <2>1 DEF IInv, OwnerInv, NewestLives, Newest
  <2>3. n \in 1..n
    BY <2>2
  <2> QED
    BY <2>1, <2>2, <2>3
<1>3. /\ blocks' \in Seq(ABlock) /\ Len(blocks') = Len(blocks)
      /\ damaged' \in BOOLEAN /\ raced' \in BOOLEAN
  BY <1>1, <1>2, ReleaseKeeps DEF IInv, TypeOK, Reset
<1>4. /\ e \in AString /\ e.live = FALSE /\ e.block = strings[n].block
      /\ strings' = [strings EXCEPT ![n] = e]
  <2>1. strings[n] \in [live : BOOLEAN, block : Nat]
    BY <1>2 DEF AString
  <2>2. e \in [live : BOOLEAN, block : Nat] /\ e.live = FALSE /\ e.block = strings[n].block
    BY <2>1
  <2> QED
    BY <1>1, <2>2 DEF AString
<1>5. /\ strings' \in Seq(AString) /\ Len(strings') = n /\ strings'[n] = e
      /\ \A j \in 1..n : j # n => strings'[j] = strings[j]
  <2> HIDE DEF e
  <2> QED
    BY <1>2, <1>4, ExceptKeeps
<1>6. \A s \in 1..Len(strings') : strings'[s].block \in 1..Len(blocks')
  <2> SUFFICES ASSUME NEW s \in 1..n
               PROVE  strings'[s].block \in 1..Len(blocks)
    BY <1>3, <1>5
  <2>1. CASE s = n
    BY <2>1, <1>2, <1>4, <1>5
  <2>2. CASE s # n
    BY <2>2, <1>5 DEF IInv, TypeOK
  <2> QED
    BY <2>1, <2>2
<1>7. TypeOK'
  <2>1. kext' \in KextLabels
    BY <1>1 DEF KextLabels
  <2> QED
    BY <2>1, <1>1, <1>2, <1>3, <1>5, <1>6, RunnerTypes DEF IInv, TypeOK, AString, ABlock
<1>8. CallbackHasData'
  BY <1>1, <1>2, <1>3, <1>5, RunnersUndisturbed DEF IInv
<1>9. OwnerInv'
  BY <1>1, <1>2, <1>3, <1>5 DEF IInv, OwnerInv, SubIsHeld, NewestLives, OwnerKnown,
         ListenerIsNewest, Newest
<1> QED
  BY <1>7, <1>8, <1>9 DEF IInv

-----------------------------------------------------------------------------
(* Callbacks.                                                               *)

\* A step of a callback leaves start and stop alone, keeps every String and
\* its life, and removes no block: so the owner of the listener is the same.
LEMMA OwnerUndisturbed ==
    ASSUME IInv, UNCHANGED starter,
           Len(strings') = Len(strings), Len(blocks') \in Nat, Len(blocks') >= Len(blocks),
           \A s \in 1..Len(strings) : strings'[s].live = strings[s].live
    PROVE  OwnerInv'
<1>1. Len(strings) \in Nat /\ Len(blocks) \in Nat
  BY DEF IInv, TypeOK
<1>2. Newest > 0 => strings'[Newest].live = strings[Newest].live
  BY <1>1 DEF Newest
<1>3. SubIsHeld'
  BY <1>1 DEF IInv, OwnerInv, SubIsHeld
<1>4. NewestLives'
  BY <1>1, <1>2 DEF IInv, OwnerInv, NewestLives, Newest
<1>5. OwnerKnown'
  BY DEF IInv, OwnerInv, OwnerKnown, Newest
<1>6. ListenerIsNewest'
  BY <1>1, <1>2 DEF IInv, OwnerInv, ListenerIsNewest, TypeOK, Newest
<1> QED
  BY <1>3, <1>4, <1>5, <1>6 DEF OwnerInv

\* The callback steps that touch neither Strings nor blocks.
LEMMA PlainCallbackSteps ==
    ASSUME IInv, NEW c \in Callbacks,
           \/ \E p \in Paths : Enter(c, p)
           \/ PathFails(c) \/ ReadCount(c) \/ CopyFails(c) \/ Read(c)
           \/ Compare(c) \/ Strays(c)
    PROVE  IInv'
<1>1. UNCHANGED <<starter, strings, blocks, raced>> /\ damaged' \in {damaged, TRUE}
  BY DEF Enter, PathFails, ReadCount, CopyFails, Read, Compare, Strays
<1>2. /\ Len(strings) \in Nat /\ Len(blocks) \in Nat
      /\ pc \in [Callbacks -> Labels] /\ arg \in [Callbacks -> 0..Len(strings)]
      /\ fresh \in [Callbacks -> 0..Len(blocks)] /\ buf \in [Callbacks -> 0..Len(blocks)]
      /\ path \in [Callbacks -> Paths] /\ verdict \in [Callbacks -> {"deny", "defer"}]
      /\ settled \in [Callbacks -> BOOLEAN]
      /\ listener \in 0..Len(strings)
      /\ \A s \in 1..Len(strings) : strings[s].block \in 1..Len(blocks)
  BY DEF IInv, TypeOK
<1>3. OwnerInv'
  BY <1>1, <1>2, OwnerUndisturbed
<1>4. TypeOK' /\ CallbackHasData'
  <2>1. CASE \E p \in Paths : Enter(c, p)
    <3>1. PICK p \in Paths : Enter(c, p)
      BY <2>1
    <3>2. listener \in 1..Len(strings)
      BY <3>1, <1>2 DEF Enter
    <3>3. CallbackHasData'
      BY <1>1, <1>2, <3>1, <3>2 DEF IInv, CallbackHasData, Enter, Goto, Labels
    <3>4. TypeOK'
      <4>1. settled' \in [Callbacks -> BOOLEAN]
        BY <1>2, <3>1 DEF Enter
      <4>2. /\ pc' \in [Callbacks -> Labels] /\ arg' \in [Callbacks -> 0..Len(strings)]
            /\ path' \in [Callbacks -> Paths] /\ UNCHANGED <<fresh, buf, verdict>>
        BY <1>2, <3>1 DEF Enter, Goto, Labels
      <4> QED
        BY <1>1, <1>2, <4>1, <4>2 DEF IInv, TypeOK
    <3> QED
      BY <3>3, <3>4
  <2>2. CASE PathFails(c)
    BY <1>1, <1>2, <2>2 DEF IInv, TypeOK, CallbackHasData, PathFails, Goto, Labels
  <2>3. CASE ReadCount(c)
    BY <1>1, <1>2, <2>3 DEF IInv, TypeOK, CallbackHasData, ReadCount, Goto, Labels
  <2>4. CASE CopyFails(c)
    BY <1>1, <1>2, <2>4 DEF IInv, TypeOK, CallbackHasData, CopyFails, Goto, Labels
  <2>5. CASE Read(c)
    <3>1. Data(c).block \in 1..Len(blocks)
      BY <1>2, <2>5 DEF IInv, CallbackHasData, Read, Data
    <3> QED
      BY <1>1, <1>2, <2>5, <3>1, SMTT(30) DEF IInv, TypeOK, CallbackHasData, Read, Goto, Labels
  <2>6. CASE Compare(c)
    <3>1. PICK v \in {"deny", "defer"} : verdict' = [verdict EXCEPT ![c] = v]
      BY <2>6 DEF Compare
    <3>2. /\ UNCHANGED <<arg, path, fresh, settled>>
          /\ pc' = [pc EXCEPT ![c] = "idle"] /\ buf' = [buf EXCEPT ![c] = 0]
      BY <2>6 DEF Compare, Goto
    <3>3. CallbackHasData'
      BY <1>1, <1>2, <3>2, SMTT(30) DEF IInv, CallbackHasData
    <3>4. /\ pc' \in [Callbacks -> Labels] /\ buf' \in [Callbacks -> 0..Len(blocks)]
          /\ verdict' \in [Callbacks -> {"deny", "defer"}]
      BY <1>2, <3>1, <3>2 DEF Labels
    <3> QED
      BY <1>1, <1>2, <3>2, <3>3, <3>4 DEF IInv, TypeOK, Compare, Goto
  <2>7. CASE Strays(c)
    BY <1>1, <1>2, <2>7, SMTT(30) DEF IInv, TypeOK, CallbackHasData, Strays, Goto, Labels
  <2> QED
    BY <2>1, <2>2, <2>3, <2>4, <2>5, <2>6, <2>7
<1> QED
  BY <1>3, <1>4 DEF IInv

\* ensureUnique() makes a block of its own.
LEMMA CopyInv ==
    ASSUME IInv, NEW c \in Callbacks, Copy(c)
    PROVE  IInv'
<1>1. /\ UNCHANGED <<starter, strings, arg, path, buf, verdict, settled>>
      /\ fresh' = [fresh EXCEPT ![c] = Len(blocks) + 1] /\ pc' = [pc EXCEPT ![c] = "reset"]
      /\ pc[c] = "copy"
  BY DEF Copy, Goto
<1>2. /\ Len(strings) \in Nat /\ Len(blocks) \in Nat
      /\ blocks' \in Seq(ABlock) /\ Len(blocks') = Len(blocks) + 1
  BY NewBlockAdds DEF IInv, TypeOK, ABlock, Copy
<1>3. OwnerInv'
  BY <1>1, <1>2, OwnerUndisturbed
<1>4. /\ fresh' \in [Callbacks -> 0..Len(blocks')] /\ buf' \in [Callbacks -> 0..Len(blocks')]
      /\ pc' \in [Callbacks -> Labels] /\ sub' \in 0..Len(blocks')
  BY <1>1, <1>2 DEF IInv, TypeOK, Labels
<1>5. TypeOK'
  <2>3. damaged' \in BOOLEAN /\ raced' \in BOOLEAN
    BY DEF Copy, IInv, TypeOK
  <2>1. \A s \in 1..Len(strings') : strings'[s].block \in 1..Len(blocks')
    BY <1>1, <1>2, BlocksInRange DEF IInv
  <2>2. /\ kext' \in KextLabels /\ context' \in BOOLEAN /\ listener' \in 0..Len(strings')
        /\ strings' \in Seq([live : BOOLEAN, block : Nat])
        /\ arg' \in [Callbacks -> 0..Len(strings')] /\ path' \in [Callbacks -> Paths]
        /\ verdict' \in [Callbacks -> {"deny", "defer"}] /\ settled' \in [Callbacks -> BOOLEAN]
    BY <1>1 DEF IInv, TypeOK
  <2> QED
    BY <1>2, <1>4, <2>1, <2>2, <2>3 DEF TypeOK, ABlock
<1>6. CallbackHasData'
  BY <1>1, <1>2, SMTT(30) DEF IInv, TypeOK, CallbackHasData
<1> QED
  BY <1>3, <1>5, <1>6 DEF IInv

\* The old block is used once less; nothing points elsewhere.
LEMMA ResetOldInv ==
    ASSUME IInv, NEW c \in Callbacks, ResetOld(c)
    PROVE  IInv'
<1>1. /\ UNCHANGED <<starter, strings, arg, path, fresh, buf, verdict, settled>>
      /\ pc' = [pc EXCEPT ![c] = "install"] /\ pc[c] = "reset" /\ Reset(arg[c])
  BY DEF ResetOld, Goto
<1>2. /\ Len(strings) \in Nat /\ Len(blocks) \in Nat /\ blocks \in Seq(ABlock)
      /\ Data(c).block \in 1..Len(blocks)
  <2>1. /\ Len(strings) \in Nat /\ Len(blocks) \in Nat /\ blocks \in Seq(ABlock)
        /\ \A s \in 1..Len(strings) : strings[s].block \in 1..Len(blocks)
    BY DEF IInv, TypeOK, ABlock
  <2>2. arg[c] \in 1..Len(strings)
    BY <1>1 DEF IInv, CallbackHasData
  <2> QED
    BY <2>1, <2>2 DEF Data
<1>3. /\ blocks' \in Seq(ABlock) /\ Len(blocks') = Len(blocks)
      /\ damaged' \in BOOLEAN /\ raced' \in BOOLEAN
  BY <1>1, <1>2, ReleaseKeeps DEF IInv, TypeOK, Reset, Data
<1>4. OwnerInv'
  BY <1>1, <1>2, <1>3, OwnerUndisturbed
<1>5. TypeOK'
  BY <1>1, <1>2, <1>3 DEF IInv, TypeOK, Labels, ABlock
<1>6. CallbackHasData'
  BY <1>1, <1>2, <1>3 DEF IInv, TypeOK, CallbackHasData
<1> QED
  BY <1>4, <1>5, <1>6 DEF IInv

\* The String gets its own block; whether it lives is not touched.
LEMMA InstallInv ==
    ASSUME IInv, NEW c \in Callbacks, Install(c)
    PROVE  IInv'
<1> DEFINE i == arg[c]
           e == [strings[i] EXCEPT !.block = fresh[c]]
<1>1. /\ UNCHANGED <<starter, heap, arg, path, buf, verdict, settled>>
      /\ strings' = [strings EXCEPT ![i] = e]
      /\ fresh' = [fresh EXCEPT ![c] = 0] /\ pc' = [pc EXCEPT ![c] = "read"]
      /\ pc[c] = "install"
  BY DEF Install, Goto
<1>2. /\ Len(strings) \in Nat /\ Len(blocks) \in Nat /\ strings \in Seq(AString)
      /\ i \in 1..Len(strings) /\ fresh[c] \in 1..Len(blocks)
  BY <1>1 DEF IInv, TypeOK, CallbackHasData, AString
<1>3. e \in AString /\ e.live = strings[i].live /\ e.block = fresh[c]
  <2>1. fresh[c] \in Nat
    BY <1>2
  <2>2. strings[i] \in AString
    BY <1>2
  <2> DEFINE r == strings[i]
  <2>3. r \in [live : BOOLEAN, block : Nat]
    BY <2>2 DEF AString
  <2>4. \A n \in Nat : LET d == [r EXCEPT !.block = n]
                       IN  d \in [live : BOOLEAN, block : Nat] /\ d.live = r.live /\ d.block = n
    <3> HIDE DEF r
    <3> QED
      BY <2>3
  <2> QED
    BY <2>1, <2>4 DEF AString
<1>4. /\ strings' \in Seq(AString) /\ Len(strings') = Len(strings) /\ strings'[i] = e
      /\ \A j \in 1..Len(strings) : j # i => strings'[j] = strings[j]
  <2> HIDE DEF e
  <2> QED
    BY <1>1, <1>2, <1>3, ExceptKeeps
<1>5. \A s \in 1..Len(strings) : /\ strings'[s].live = strings[s].live
                                 /\ strings'[s].block \in 1..Len(blocks)
  <2> HIDE DEF e
  <2> QED
    BY <1>2, <1>3, <1>4 DEF IInv, TypeOK
<1> HIDE DEF e
<1>6. OwnerInv'
  BY <1>1, <1>2, <1>4, <1>5, OwnerUndisturbed
<1>7. /\ fresh' \in [Callbacks -> 0..Len(blocks)] /\ pc' \in [Callbacks -> Labels]
      /\ arg' \in [Callbacks -> 0..Len(strings')]
  BY <1>1, <1>2, <1>4 DEF IInv, TypeOK, Labels
<1>8. TypeOK'
  BY <1>1, <1>2, <1>4, <1>5, <1>7 DEF IInv, TypeOK, AString
<1>9. CallbackHasData'
  BY <1>1, <1>2, <1>4 DEF IInv, TypeOK, CallbackHasData
<1> QED
  BY <1>6, <1>8, <1>9 DEF IInv

-----------------------------------------------------------------------------
(* What callbacks that begin after start find, whatever those before it did  *)
(* that damaged nothing.                                                     *)

\* A callback under way whose String lives.
Live(c) == InFlight(c) /\ Data(c).live

\* Block b of bs is there, and used n times.
Used(bs, b, n) == b \in 1..Len(bs) /\ bs[b].live /\ bs[b].count = n

\* The newest String lives only between CopyData and FreeData.
NewestMayLive ==
    (Newest > 0 /\ strings[Newest].live) =>
        /\ kext \in {"listen", "wrap", "publish", "dropStarted", "started", "free", "destroy"}
        /\ kext \in {"dropStarted", "started"} => context

\* A callback with a live String has the newest, between Listen and FreeData.
LiveIsNewest ==
    \A c \in Callbacks : Live(c) =>
        /\ arg[c] = Newest
        /\ kext \in {"wrap", "publish", "dropStarted", "started", "free", "destroy"}
        /\ kext # "destroy" => listener = Newest
        /\ settled[c] => kext \in {"started", "free"}

\* Once one callback is settled, all are.
SettledAlike ==
    kext = "started" => \A c, d \in Callbacks : Live(c) /\ Live(d) /\ settled[c] => settled[d]

\* Copying(c): the block it made is its own until it is installed.
Copying(c) == Live(c) /\ pc[c] \in {"reset", "install"}
FreshIsOwn ==
    \A c \in Callbacks : Copying(c) =>
        /\ Used(blocks, fresh[c], 1) /\ fresh[c] # sub /\ fresh[c] # strings[Newest].block
        /\ \A d \in Callbacks : d # c /\ Copying(d) => fresh[d] # fresh[c]

\* Whatever copies were reset, the one installed last is used once.
NobodyInstalls == \A c \in Callbacks : Live(c) => pc[c] # "install"
NewestIsSound ==
    (Newest > 0 /\ strings[Newest].live /\ NobodyInstalls)
        => LET b == strings[Newest].block IN Used(blocks, b, IF b = sub THEN 2 ELSE 1)

\* Until it is copied start's string is used once; then it is given back.
SubKnown == /\ kext = "copy" => Used(blocks, sub, 1)
            /\ kext = "started" => sub = Nothing

\* Settled callbacks do not copy, and compare the characters of the String.
SettledReads ==
    kext = "started" => \A c \in Callbacks : Live(c) /\ settled[c] =>
        /\ pc[c] \notin {"copy", "reset", "install"}
        /\ pc[c] = "compare" => buf[c] = strings[Newest].block

SettledInv == /\ NewestMayLive /\ LiveIsNewest /\ SettledAlike /\ FreshIsOwn
              /\ NewestIsSound /\ SubKnown /\ SettledReads

\* The ranges, in the form the proofs below use them.
LEMMA Ranges ==
    ASSUME IInv
    PROVE  /\ Len(strings) \in Nat /\ Len(blocks) \in Nat /\ blocks \in Seq(ABlock)
           /\ strings \in Seq(AString) /\ context \in BOOLEAN
           /\ listener \in 0..Len(strings) /\ sub \in 0..Len(blocks)
           /\ \A s \in 1..Len(strings) : strings[s].block \in 1..Len(blocks)
           /\ pc \in [Callbacks -> Labels] /\ arg \in [Callbacks -> 0..Len(strings)]
           /\ fresh \in [Callbacks -> 0..Len(blocks)] /\ buf \in [Callbacks -> 0..Len(blocks)]
           /\ settled \in [Callbacks -> BOOLEAN]
           /\ \A c \in Callbacks : pc[c] # "idle" => arg[c] \in 1..Len(strings)
BY DEF IInv, TypeOK, CallbackHasData, ABlock, AString

\* A live callback works on the newest String, which lives.
LEMMA LiveFacts ==
    ASSUME IInv, SettledInv, NEW c \in Callbacks, Live(c)
    PROVE  /\ arg[c] = Newest /\ Data(c) = strings[Newest]
           /\ Newest \in 1..Len(strings) /\ strings[Newest].live
           /\ strings[Newest].block \in 1..Len(blocks)
BY Ranges DEF SettledInv, LiveIsNewest, Live, InFlight, Data, Newest

\* Counting up a block that was used once.
LEMMA RetainUsed ==
    ASSUME blocks \in Seq(ABlock), NEW b \in 1..Len(blocks), Used(blocks, b, 1), Retain(b)
    PROVE  Used(blocks', b, 2)
<1> DEFINE e == [blocks[b] EXCEPT !.count = @ + 1]
<1>1. blocks[b] \in ABlock /\ blocks[b].live /\ blocks[b].count = 1
    BY DEF Used
<1>2. e \in ABlock /\ e.live /\ e.count = 2
    BY <1>1 DEF ABlock
<1>3. blocks' = [blocks EXCEPT ![b] = e]
    BY DEF Retain
<1>4. Len(blocks') = Len(blocks) /\ blocks'[b] = e
  <2> HIDE DEF e
  <2> QED
    BY <1>2, <1>3, ExceptKeeps
<1> QED
    BY <1>2, <1>4 DEF Used

\* Counting a block down that is not deleted touches no other.
LEMMA ReleaseUsed ==
    ASSUME blocks \in Seq(ABlock), NEW b \in 1..Len(blocks), Release(b), ~damaged'
    PROVE  /\ Used(blocks, b, 2) => Used(blocks', b, 1)
           /\ \A a \in Nat, n \in Nat : a # b /\ Used(blocks, a, n) => Used(blocks', a, n)
<1> DEFINE left == blocks[b].count - 1
           e == [live |-> blocks[b].live /\ left > 0, count |-> left]
<1>1. blocks[b] \in ABlock
    OBVIOUS
<1>2. e \in ABlock
    BY <1>1 DEF ABlock
<1>3. blocks' = [blocks EXCEPT ![b] = e]
    BY DEF Release, Drop
<1>4. /\ Len(blocks') = Len(blocks) /\ blocks'[b] = e
      /\ \A j \in 1..Len(blocks) : j # b => blocks'[j] = blocks[j]
  <2> HIDE DEF e
  <2> QED
    BY <1>2, <1>3, ExceptKeeps
<1>5. Used(blocks, b, 2) => e.live /\ e.count = 1
  <2> SUFFICES ASSUME Used(blocks, b, 2)
               PROVE  e.live /\ e.count = 1
    OBVIOUS
  <2>1. blocks[b].live /\ left = 1
    BY DEF Used
  <2>2. (blocks[b].live /\ left > 0) = TRUE
    BY <2>1
  <2>3. e = [live |-> TRUE, count |-> 1]
    BY <2>1, <2>2
  <2> HIDE DEF e
  <2> QED
    BY <2>3
<1> HIDE DEF e
<1> QED
    BY <1>4, <1>5 DEF Used

\* A new block is used once; the others are as before.
LEMMA NewBlockUsed ==
    ASSUME blocks \in Seq(ABlock), NewBlock
    PROVE  /\ Used(blocks', Len(blocks) + 1, 1)
           /\ \A a \in Nat, n \in Nat : Used(blocks, a, n) => Used(blocks', a, n)
<1> DEFINE e == [live |-> TRUE, count |-> 1]
<1>1. e \in ABlock /\ e.live /\ e.count = 1 /\ blocks' = Append(blocks, e)
    BY DEF ABlock, NewBlock
<1> HIDE DEF e
<1>2. /\ Len(blocks') = Len(blocks) + 1 /\ blocks'[Len(blocks')] = e
      /\ \A j \in 1..Len(blocks) : blocks'[j] = blocks[j]
    BY <1>1, AppendKeeps
<1>3. Len(blocks) \in Nat
    OBVIOUS
<1> QED
    BY <1>1, <1>2, <1>3 DEF Used

-----------------------------------------------------------------------------
(* The steps of start and stop.                                              *)

\* After a step that leaves no callback with a live String, three conjuncts are
\* all there is to show.
LEMMA NoneLive ==
    ASSUME \A c \in Callbacks : ~Live(c)', NewestMayLive', NewestIsSound', SubKnown'
    PROVE  SettledInv'
BY DEF SettledInv, LiveIsNewest, SettledAlike, FreshIsOwn, Copying, SettledReads

\* Those that only move on, or hand the listener over.
LEMMA PlainStartSettled ==
    ASSUME IInv, SettledInv,
           \/ CopyDataFails \/ Listen \/ ListenFails \/ Wrap \/ WrapFails
           \/ Publish \/ PublishFails \/ Stop \/ Unlisten
    PROVE  SettledInv'
<1>1. UNCHANGED <<strings, heap, sub, runner>>
  BY DEF CopyDataFails, Listen, ListenFails, Wrap, WrapFails, Publish, PublishFails,
         Stop, Unlisten
<1>2. kext' \notin {"copy", "started"}
  BY DEF CopyDataFails, Listen, ListenFails, Wrap, WrapFails, Publish, PublishFails,
         Stop, Unlisten
<1>3. \A c \in Callbacks : (Live(c)' <=> Live(c)) /\ (Copying(c)' <=> Copying(c))
  BY <1>1 DEF Live, InFlight, Data, Copying
<1>4. /\ Newest' = Newest /\ strings'[Newest'] = strings[Newest]
      /\ listener \in 0..Newest /\ Newest \in Nat
  BY <1>1, Ranges DEF Newest
<1>5. OwnerKnown /\ NewestLives /\ ListenerIsNewest
  BY DEF IInv, OwnerInv
<1>6. NewestMayLive'
  <2> USE <1>4, <1>5 DEF SettledInv, NewestMayLive, OwnerKnown, NewestLives
  <2>1. CASE CopyDataFails
    BY <2>1 DEF CopyDataFails
  <2>2. CASE Listen
    BY <2>2 DEF Listen
  <2>3. CASE ListenFails
    BY <2>3 DEF ListenFails
  <2>4. CASE Wrap
    BY <2>4 DEF Wrap
  <2>5. CASE WrapFails
    BY <2>5 DEF WrapFails
  <2>6. CASE Publish
    BY <2>6 DEF Publish
  <2>7. CASE PublishFails
    BY <2>7 DEF PublishFails
  <2>8. CASE Stop
    BY <2>8 DEF Stop
  <2>9. CASE Unlisten
    BY <2>9 DEF Unlisten
  <2> QED
    BY <2>1, <2>2, <2>3, <2>4, <2>5, <2>6, <2>7, <2>8, <2>9
<1>7. LiveIsNewest'
  <2> USE <1>1, <1>3, <1>4, <1>5 DEF SettledInv, LiveIsNewest, OwnerKnown, ListenerIsNewest
  <2>1. CASE CopyDataFails
    BY <2>1 DEF CopyDataFails
  <2>2. CASE Listen
    BY <2>2 DEF Listen
  <2>3. CASE ListenFails
    BY <2>3 DEF ListenFails
  <2>4. CASE Wrap
    BY <2>4 DEF Wrap
  <2>5. CASE WrapFails
    BY <2>5 DEF WrapFails
  <2>6. CASE Publish
    BY <2>6 DEF Publish
  <2>7. CASE PublishFails
    BY <2>7 DEF PublishFails
  <2>8. CASE Stop
    <3>1. \A c \in Callbacks : Live(c) => Newest > 0
      BY LiveFacts
    <3> QED
      BY <2>8, <3>1 DEF Stop
  <2>9. CASE Unlisten
    BY <2>9 DEF Unlisten
  <2> QED
    BY <2>1, <2>2, <2>3, <2>4, <2>5, <2>6, <2>7, <2>8, <2>9
<1>8. SettledAlike' /\ SubKnown' /\ SettledReads'
  BY <1>2 DEF SettledAlike, SubKnown, SettledReads
<1>9. FreshIsOwn' /\ NewestIsSound'
  BY <1>1, <1>3 DEF SettledInv, FreshIsOwn, NewestIsSound, NobodyInstalls, Used, Newest
<1> QED
  BY <1>6, <1>7, <1>8, <1>9 DEF SettledInv

\* Before the first listener there is nobody to see the new block.
LEMMA StartSettled ==
    ASSUME IInv, SettledInv, Start
    PROVE  SettledInv'
<1>1. /\ UNCHANGED <<strings, runner>> /\ kext = "unloaded" /\ kext' = "copy"
      /\ sub' = Len(blocks) + 1 /\ NewBlock
  BY DEF Start
<1>2. ~(Newest > 0 /\ strings[Newest].live)
  BY <1>1 DEF SettledInv, NewestMayLive
<1>3. \A c \in Callbacks : ~Live(c)'
  BY <1>1 DEF SettledInv, LiveIsNewest, Live, InFlight, Data
<1>4. NewestMayLive' /\ NewestIsSound'
  BY <1>1, <1>2 DEF NewestMayLive, NewestIsSound, Newest
<1>5. SubKnown'
  BY <1>1, NewBlockUsed, Ranges DEF SubKnown
<1> QED
  BY <1>3, <1>4, <1>5, NoneLive

\* The copy shares the block with the string it was copied from.
LEMMA CopyDataSettled ==
    ASSUME IInv, SettledInv, CopyData
    PROVE  SettledInv'
<1> DEFINE e == [live |-> TRUE, block |-> sub]
<1>1. /\ UNCHANGED <<runner, sub>> /\ kext = "copy" /\ kext' = "listen"
      /\ strings' = Append(strings, e) /\ Retain(sub)
  BY DEF CopyData
<1>2. Used(blocks, sub, 1) /\ sub \in 1..Len(blocks)
  BY <1>1 DEF SettledInv, SubKnown, Used
<1>3. Used(blocks', sub, 2)
  BY <1>1, <1>2, Ranges, RetainUsed DEF Used
<1>4. e \in AString /\ e.block = sub
  BY <1>2, Ranges DEF AString
<1>5. /\ Len(strings') = Len(strings) + 1 /\ strings'[Len(strings')] = e
      /\ \A j \in 1..Len(strings) : strings'[j] = strings[j]
  <2> HIDE DEF e
  <2> QED
    BY <1>1, <1>4, Ranges, AppendKeeps
<1>6. \A c \in Callbacks : ~Live(c)'
  BY <1>1, <1>5, Ranges DEF SettledInv, LiveIsNewest, Live, InFlight, Data
<1>7. NewestIsSound'
  BY <1>1, <1>3, <1>4, <1>5 DEF NewestIsSound, Newest
<1>8. NewestMayLive' /\ SubKnown'
  BY <1>1 DEF NewestMayLive, SubKnown
<1> QED
  BY <1>6, <1>7, <1>8, NoneLive

\* start gives its own reference back: no copy is that block, and the newest
\* String, if it still has it, is left as its only user.
LEMMA DropSubSettled ==
    ASSUME IInv, SettledInv, DropSub, ~damaged'
    PROVE  SettledInv'
<1>1. /\ UNCHANGED <<strings, raced, runner, context, listener>> /\ sub' = 0 /\ Release(sub)
      /\ kext \in {"dropStarted", "dropFailed"}
      /\ kext' = IF kext = "dropStarted" THEN "started" ELSE "unloaded"
  BY DEF DropSub
<1>2. sub \in 1..Len(blocks)
  BY <1>1 DEF IInv, OwnerInv, SubIsHeld
<1>3. /\ Used(blocks, sub, 2) => Used(blocks', sub, 1)
      /\ \A a \in Nat, n \in Nat : a # sub /\ Used(blocks, a, n) => Used(blocks', a, n)
  <2>1. blocks \in Seq(ABlock)
    BY Ranges
  <2> QED
    BY <1>1, <1>2, <2>1, ReleaseUsed
<1>4. \A c \in Callbacks : (Live(c)' <=> Live(c)) /\ (Copying(c)' <=> Copying(c))
  BY <1>1 DEF Live, InFlight, Data, Copying
<1>5. \A c \in Callbacks : Live(c) => ~settled[c] /\ kext = "dropStarted"
  BY <1>1 DEF SettledInv, LiveIsNewest
<1>6. NewestMayLive' /\ SubKnown'
  BY <1>1 DEF SettledInv, NewestMayLive, SubKnown, Newest
<1>7. LiveIsNewest' /\ SettledAlike' /\ SettledReads'
  BY <1>1, <1>4, <1>5 DEF SettledInv, LiveIsNewest, SettledAlike, SettledReads, Newest
<1>8. FreshIsOwn'
  <2>1. \A c \in Callbacks : Copying(c) => fresh[c] # 0 /\ Used(blocks', fresh[c], 1)
    <3> SUFFICES ASSUME NEW c \in Callbacks, Copying(c)
                 PROVE  fresh[c] # 0 /\ Used(blocks', fresh[c], 1)
      OBVIOUS
    <3>1. Used(blocks, fresh[c], 1) /\ fresh[c] # sub
      BY DEF SettledInv, FreshIsOwn
    <3>2. fresh[c] \in Nat /\ fresh[c] # 0
      BY <3>1, Ranges DEF Used
    <3> QED
      BY <1>3, <3>1, <3>2
  <2> QED
    BY <1>1, <1>4, <2>1 DEF SettledInv, FreshIsOwn, Newest
<1>9. NewestIsSound'
  <2> DEFINE b == strings[Newest].block
  <2> SUFFICES ASSUME Newest > 0, strings[Newest].live, NobodyInstalls'
               PROVE  Used(blocks', b, 1)
    <3>1. Newest' = Newest /\ strings'[Newest'] = strings[Newest] /\ sub' = 0
      BY <1>1 DEF Newest
    <3>2. Used(blocks', b, 1) => b # 0
      BY Ranges DEF Newest, Used
    <3> QED
      BY <3>1, <3>2 DEF NewestIsSound
  <2>1. NobodyInstalls
    BY <1>1, <1>4 DEF NobodyInstalls
  <2>2. Used(blocks, b, IF b = sub THEN 2 ELSE 1)
    BY <2>1 DEF SettledInv, NewestIsSound
  <2>3. b \in Nat
    BY <2>2, Ranges DEF Used
  <2> HIDE DEF b
  <2> QED
    BY <1>3, <2>2, <2>3
<1> QED
  BY <1>6, <1>7, <1>8, <1>9 DEF SettledInv

\* With the newest String every callback under way loses its own.
LEMMA FreeDataSettled ==
    ASSUME IInv, SettledInv, FreeData
    PROVE  SettledInv'
<1> DEFINE n == Len(strings)
           e == [strings[n] EXCEPT !.live = FALSE]
<1>1. /\ UNCHANGED <<runner, context, listener, sub>>
      /\ kext \in {"free", "destroy"} /\ kext' \in {"unlisten", "dropFailed"}
      /\ strings' = [strings EXCEPT ![n] = e]
  BY DEF FreeData
<1>2. n \in 1..Len(strings) /\ strings \in Seq(AString) /\ strings[n] \in AString
  <2>1. n \in Nat /\ strings \in Seq(AString)
    BY Ranges
  <2>2. n > 0
    BY <1>1 DEF IInv, OwnerInv, NewestLives, Newest
  <2> QED
    BY <2>1, <2>2
<1>3. e \in AString /\ ~e.live
  BY <1>2 DEF AString
<1>4. /\ Len(strings') = n /\ strings'[n] = e
      /\ \A j \in 1..n : j # n => strings'[j] = strings[j]
  <2> HIDE DEF e
  <2> QED
    BY <1>1, <1>2, <1>3, ExceptKeeps
<1>5. \A c \in Callbacks : ~Live(c)'
  <2> SUFFICES ASSUME NEW c \in Callbacks, pc[c] # "idle"
               PROVE  ~strings'[arg[c]].live
    BY <1>1 DEF Live, InFlight, Data
  <2>1. CASE arg[c] = n
    BY <2>1, <1>3, <1>4
  <2>2. CASE arg[c] # n
    BY <2>2, <1>4, Ranges DEF SettledInv, LiveIsNewest, Live, InFlight, Data, Newest
  <2> QED
    BY <2>1, <2>2
<1>6. NewestMayLive' /\ NewestIsSound' /\ SubKnown'
  BY <1>1, <1>3, <1>4 DEF NewestMayLive, NewestIsSound, SubKnown, Newest
<1> QED
  BY <1>5, <1>6, NoneLive

-----------------------------------------------------------------------------
(* The steps of callbacks.                                                   *)

\* While one settled callback is live nobody copies, and the string they share
\* is used once: this is what ensureUnique() then finds.
LEMMA SettledFinds ==
    ASSUME IInv, SettledInv, kext = "started",
           NEW c \in Callbacks, Live(c), settled[c]
    PROVE  Used(blocks, strings[Newest].block, 1)
<1>1. \A d \in Callbacks : Live(d) => settled[d]
  BY DEF SettledInv, SettledAlike
<1>2. NobodyInstalls
  BY <1>1 DEF SettledInv, SettledReads, NobodyInstalls
<1>3. Newest > 0 /\ strings[Newest].live /\ strings[Newest].block # 0
  BY LiveFacts, Ranges DEF Newest
<1>4. sub = 0
  BY DEF SettledInv, SubKnown
<1> QED
  BY <1>2, <1>3, <1>4 DEF SettledInv, NewestIsSound

\* A callback that is not copying, and goes on without copying, disturbs at
\* most what settled callbacks are known to do.
LEMMA GoingOnSettled ==
    ASSUME IInv, SettledInv, NEW c \in Callbacks, NEW l \in {"read", "copy", "compare"},
           UNCHANGED <<starter, strings, blocks, arg, fresh, settled>>,
           pc[c] \in {"count", "copy", "read"}, pc' = [pc EXCEPT ![c] = l],
           SettledReads'
    PROVE  SettledInv'
<1>1. pc' \in [Callbacks -> Labels] /\ pc'[c] = l /\ \A d \in Callbacks : d # c => pc'[d] = pc[d]
  BY Ranges DEF Labels
<1>2. \A d \in Callbacks : (Live(d)' <=> Live(d)) /\ (Copying(d)' <=> Copying(d))
  BY <1>1 DEF Live, InFlight, Data, Copying
<1>3. NobodyInstalls' <=> NobodyInstalls
  BY <1>1, <1>2 DEF NobodyInstalls
<1>4. NewestMayLive' /\ LiveIsNewest' /\ SettledAlike' /\ SubKnown'
  BY <1>2 DEF SettledInv, NewestMayLive, LiveIsNewest, SettledAlike, SubKnown, Newest
<1>5. FreshIsOwn'
  BY <1>2 DEF SettledInv, FreshIsOwn, Newest
<1>6. NewestIsSound'
  BY <1>3 DEF SettledInv, NewestIsSound, Newest
<1> QED
  BY <1>4, <1>5, <1>6 DEF SettledInv

\* ensureUnique() of a settled callback finds the string unique.
LEMMA ReadCountSettled ==
    ASSUME IInv, SettledInv, NEW c \in Callbacks, ReadCount(c)
    PROVE  SettledInv'
<1>1. /\ UNCHANGED <<starter, strings, blocks, arg, fresh, buf, settled>>
      /\ pc[c] = "count" /\ Data(c).live /\ Live(c)
  BY DEF ReadCount, Live, InFlight
<1>2. \/ pc' = [pc EXCEPT ![c] = "read"]
      \/ /\ pc' = [pc EXCEPT ![c] = "copy"]
         /\ DataBlock(c).live => DataBlock(c).count > 1
  BY DEF ReadCount, Goto
<1>3. kext = "started" /\ settled[c] => pc' = [pc EXCEPT ![c] = "read"]
  <2> SUFFICES ASSUME kext = "started", settled[c]
               PROVE  DataBlock(c).live /\ DataBlock(c).count = 1
    BY <1>2
  <2> QED
    BY <1>1, SettledFinds, LiveFacts DEF DataBlock, Used
<1>4. SettledReads'
  <2>1. \A d \in Callbacks : d # c => pc'[d] = pc[d]
    BY <1>2, Ranges
  <2>2. pc'[c] \in {"read", "copy"} /\ (kext = "started" /\ settled[c] => pc'[c] = "read")
    BY <1>2, <1>3, Ranges
  <2>3. \A d \in Callbacks : Live(d)' => Live(d)
    BY <1>1, <2>1 DEF Live, InFlight, Data
  <2> QED
    BY <1>1, <2>1, <2>2, <2>3 DEF SettledInv, SettledReads, Newest
<1> QED
  BY <1>1, <1>2, <1>4, GoingOnSettled

\* A settled callback has nothing to copy.
LEMMA CopyFailsSettled ==
    ASSUME IInv, SettledInv, NEW c \in Callbacks, CopyFails(c)
    PROVE  SettledInv'
<1>1. /\ UNCHANGED <<starter, strings, blocks, arg, fresh, buf, settled>>
      /\ pc[c] = "copy" /\ pc' = [pc EXCEPT ![c] = "read"]
  BY DEF CopyFails, Goto
<1>2. SettledReads'
  <2>1. pc'[c] = "read" /\ \A d \in Callbacks : d # c => pc'[d] = pc[d]
    BY <1>1, Ranges
  <2>2. \A d \in Callbacks : Live(d)' => Live(d)
    BY <1>1, <2>1 DEF Live, InFlight, Data
  <2> QED
    BY <1>1, <2>1, <2>2 DEF SettledInv, SettledReads, Newest
<1> QED
  BY <1>1, <1>2, GoingOnSettled

\* c_str() returns the characters of the newest String.
LEMMA ReadSettled ==
    ASSUME IInv, SettledInv, NEW c \in Callbacks, Read(c)
    PROVE  SettledInv'
<1>1. /\ UNCHANGED <<starter, strings, blocks, arg, fresh, settled>>
      /\ pc[c] = "read" /\ Live(c) /\ pc' = [pc EXCEPT ![c] = "compare"]
      /\ buf' = [buf EXCEPT ![c] = Data(c).block]
  BY DEF Read, Goto, Live, InFlight
<1>2. SettledReads'
  <2>1. /\ pc'[c] = "compare" /\ buf'[c] = strings[Newest].block
        /\ \A d \in Callbacks : d # c => pc'[d] = pc[d] /\ buf'[d] = buf[d]
    BY <1>1, Ranges, LiveFacts
  <2>2. \A d \in Callbacks : Live(d)' => Live(d)
    BY <1>1, <2>1 DEF Live, InFlight, Data
  <2> QED
    BY <1>1, <2>1, <2>2 DEF SettledInv, SettledReads, Newest
<1> QED
  BY <1>1, <1>2, GoingOnSettled

\* A callback that ends, or has lost its String, leaves the others as they are.
LEMMA LeavingSettled ==
    ASSUME IInv, SettledInv, NEW c \in Callbacks,
           PathFails(c) \/ Compare(c) \/ Strays(c)
    PROVE  SettledInv'
<1>1. /\ UNCHANGED <<starter, strings, blocks, arg, fresh, settled>>
      /\ \E l \in {"idle", "astray"} : pc' = [pc EXCEPT ![c] = l]
      /\ \E b \in {buf[c], 0} : buf' = [buf EXCEPT ![c] = b]
  <2>1. CASE PathFails(c)
    BY <2>1, Ranges DEF PathFails, Goto
  <2>2. CASE Compare(c)
    BY <2>2 DEF Compare, Goto
  <2>3. CASE Strays(c)
    BY <2>3, Ranges DEF Strays, Goto
  <2> QED
    BY <2>1, <2>2, <2>3
<1>2. /\ pc'[c] \in {"idle", "astray"}
      /\ \A d \in Callbacks : d # c => pc'[d] = pc[d] /\ buf'[d] = buf[d]
  BY <1>1, Ranges
<1>3. ~Live(c)' /\ (Live(c) => pc[c] # "install")
  <2>1. CASE PathFails(c) \/ Compare(c)
    BY <2>1, Ranges DEF PathFails, Compare, Goto, Live, InFlight
  <2>2. CASE Strays(c)
    BY <2>2, <1>1 DEF Strays, Live, Data
  <2> QED
    BY <2>1, <2>2
<1>4. \A d \in Callbacks : /\ Live(d)' <=> (d # c /\ Live(d))
                           /\ Copying(d)' => d # c /\ Copying(d)
  BY <1>1, <1>2, <1>3 DEF Live, InFlight, Data, Copying
<1>5. NobodyInstalls' => NobodyInstalls
  BY <1>2, <1>3, <1>4 DEF NobodyInstalls
<1>6. NewestMayLive' /\ LiveIsNewest' /\ SettledAlike' /\ SubKnown'
  BY <1>1, <1>4 DEF SettledInv, NewestMayLive, LiveIsNewest, SettledAlike, SubKnown, Newest
<1>7. FreshIsOwn'
  BY <1>1, <1>4 DEF SettledInv, FreshIsOwn, Newest
<1>8. NewestIsSound' /\ SettledReads'
  BY <1>1, <1>2, <1>4, <1>5 DEF SettledInv, NewestIsSound, SettledReads, Newest
<1> QED
  BY <1>6, <1>7, <1>8 DEF SettledInv

\* A new callback is settled when start is over and all the others are.
LEMMA EnterSettled ==
    ASSUME IInv, SettledInv, NEW c \in Callbacks, NEW p \in Paths, Enter(c, p)
    PROVE  SettledInv'
<1> DEFINE alike == \A d \in Callbacks : InFlight(d) /\ arg[d] = listener => settled[d]
<1>1. /\ UNCHANGED <<starter, strings, blocks, fresh, buf>>
      /\ pc[c] = "idle" /\ listener # 0
      /\ pc' = [pc EXCEPT ![c] = "count"] /\ arg' = [arg EXCEPT ![c] = listener]
      /\ settled' = [settled EXCEPT ![c] = kext = "started" /\ alike]
  BY DEF Enter, Goto
<1>2. /\ pc'[c] = "count" /\ arg'[c] = listener
      /\ settled'[c] <=> (kext = "started" /\ alike)
      /\ \A d \in Callbacks : d # c => /\ pc'[d] = pc[d] /\ arg'[d] = arg[d]
                                       /\ settled'[d] = settled[d]
  BY <1>1, Ranges
<1>3. \A d \in Callbacks : d # c => (Live(d)' <=> Live(d)) /\ (Copying(d)' <=> Copying(d))
  BY <1>1, <1>2 DEF Live, InFlight, Data, Copying
<1>4. ~Live(c) /\ ~Copying(c)'
  BY <1>1, <1>2 DEF Live, InFlight, Copying
<1>5. listener = Newest /\ Newest \in 1..Len(strings)
  BY <1>1, Ranges DEF IInv, OwnerInv, ListenerIsNewest, Newest
<1>6. Live(c)' => strings[Newest].live
  BY <1>1, <1>2, <1>5 DEF Live, Data
<1>7. Live(c)' => kext \in {"wrap", "publish", "dropStarted", "started", "free", "destroy"}
  BY <1>1, <1>5, <1>6 DEF SettledInv, NewestMayLive, IInv, OwnerInv, OwnerKnown
<1>8. NewestMayLive' /\ SubKnown'
  BY <1>1 DEF SettledInv, NewestMayLive, SubKnown, Newest
<1>9. LiveIsNewest'
  <2> SUFFICES ASSUME NEW d \in Callbacks, Live(d)'
               PROVE  /\ arg'[d] = Newest
                      /\ kext \in {"wrap", "publish", "dropStarted", "started", "free", "destroy"}
                      /\ kext # "destroy" => listener = Newest
                      /\ settled'[d] => kext \in {"started", "free"}
    BY <1>1 DEF LiveIsNewest, Newest
  <2>1. CASE d = c
    BY <2>1, <1>2, <1>5, <1>7
  <2>2. CASE d # c
    BY <2>2, <1>2, <1>3 DEF SettledInv, LiveIsNewest
  <2> QED
    BY <2>1, <2>2
<1>10. SettledAlike'
  <2> SUFFICES ASSUME kext = "started", NEW d \in Callbacks, NEW e \in Callbacks,
                      Live(d)', Live(e)', settled'[d]
               PROVE  settled'[e]
    BY <1>1 DEF SettledAlike
  <2>1. \A f \in Callbacks : InFlight(f) /\ arg[f] = listener => Live(f)
    BY <1>5, <1>1 DEF IInv, OwnerInv, ListenerIsNewest, Live, Data
  <2>2. \A f \in Callbacks : Live(f) => InFlight(f) /\ arg[f] = listener
    BY <1>5, LiveFacts DEF Live
  <2>3. d = c => \A f \in Callbacks : Live(f) => settled[f]
    BY <1>2, <2>2
  <2>4. d # c => \A f \in Callbacks : Live(f) => settled[f]
    BY <1>2, <1>3 DEF SettledInv, SettledAlike
  <2>5. \A f \in Callbacks : Live(f) => settled[f]
    BY <2>3, <2>4
  <2>6. CASE e = c
    BY <2>1, <2>5, <2>6, <1>2
  <2>7. CASE e # c
    BY <2>5, <2>7, <1>2, <1>3
  <2> QED
    BY <2>6, <2>7
<1>11. FreshIsOwn'
  BY <1>1, <1>3, <1>4 DEF SettledInv, FreshIsOwn, Newest
<1>12. NobodyInstalls' => NobodyInstalls
  BY <1>2, <1>3, <1>4 DEF NobodyInstalls
<1>13. NewestIsSound'
  BY <1>1, <1>12 DEF SettledInv, NewestIsSound, Newest
<1>14. SettledReads'
  BY <1>1, <1>2, <1>3 DEF SettledInv, SettledReads, Newest
<1> QED
  BY <1>8, <1>9, <1>10, <1>11, <1>13, <1>14 DEF SettledInv

\* The block a callback makes is nobody else's.
LEMMA CopySettled ==
    ASSUME IInv, SettledInv, NEW c \in Callbacks, Copy(c)
    PROVE  SettledInv'
<1> DEFINE n == Len(blocks) + 1
<1>1. /\ UNCHANGED <<starter, strings, arg, buf, settled>> /\ NewBlock
      /\ pc[c] = "copy" /\ Live(c) /\ pc' = [pc EXCEPT ![c] = "reset"]
      /\ fresh' = [fresh EXCEPT ![c] = n]
  BY DEF Copy, Goto, Live, InFlight
<1>2. /\ pc'[c] = "reset" /\ fresh'[c] = n
      /\ \A d \in Callbacks : d # c => pc'[d] = pc[d] /\ fresh'[d] = fresh[d]
  BY <1>1, Ranges
<1>3. \A d \in Callbacks : /\ Live(d)' <=> Live(d)
                           /\ d # c => (Copying(d)' <=> Copying(d))
  BY <1>1, <1>2 DEF Live, InFlight, Data, Copying
<1>4. /\ Used(blocks', n, 1)
      /\ \A a \in Nat, k \in Nat : Used(blocks, a, k) => Used(blocks', a, k)
  BY <1>1, Ranges, NewBlockUsed
<1>5. n \in Nat /\ \A a \in 0..Len(blocks) : a # n
  BY Ranges
<1>6. kext # "copy" /\ (kext = "started" => ~settled[c])
  BY <1>1 DEF SettledInv, LiveIsNewest, SettledReads
<1>7. NewestMayLive' /\ LiveIsNewest' /\ SettledAlike' /\ SubKnown'
  BY <1>1, <1>3, <1>6 DEF SettledInv, NewestMayLive, LiveIsNewest, SettledAlike, SubKnown, Newest
<1>8. SettledReads'
  BY <1>1, <1>2, <1>3, <1>6 DEF SettledInv, SettledReads, Newest
<1>9. FreshIsOwn'
  <2>1. sub # n /\ strings[Newest].block # n
    BY <1>1, <1>5, LiveFacts, Ranges
  <2>2. \A d \in Callbacks : fresh[d] # n
    BY <1>5, Ranges
  <2>3. \A d \in Callbacks : Used(blocks, fresh[d], 1) => Used(blocks', fresh[d], 1)
    BY <1>4, Ranges
  <2> SUFFICES ASSUME NEW d \in Callbacks, Copying(d)'
               PROVE  /\ Used(blocks', fresh'[d], 1) /\ fresh'[d] # sub
                      /\ fresh'[d] # strings[Newest].block
                      /\ \A e \in Callbacks : e # d /\ Copying(e)' => fresh'[e] # fresh'[d]
    BY <1>1 DEF FreshIsOwn, Newest
  <2> HIDE DEF n
  <2>4. CASE d = c
    BY <2>4, <1>2, <1>4, <2>1, <2>2
  <2>5. CASE d # c
    BY <2>5, <1>2, <1>3, <2>2, <2>3 DEF SettledInv, FreshIsOwn
  <2> QED
    BY <2>4, <2>5
<1>10. NobodyInstalls' => NobodyInstalls
  BY <1>1, <1>2, <1>3 DEF NobodyInstalls
<1>11. NewestIsSound'
  <2> DEFINE b == strings[Newest].block
             k == IF b = sub THEN 2 ELSE 1
  <2>1. b \in Nat /\ k \in Nat
    BY <1>1, LiveFacts, Ranges
  <2>2. Newest' = Newest /\ strings'[Newest'] = strings[Newest] /\ sub' = sub
    BY <1>1 DEF Newest
  <2>3. NewestIsSound => (Newest > 0 /\ strings[Newest].live /\ NobodyInstalls
                              => Used(blocks, b, k))
    BY DEF NewestIsSound
  <2>4. (Newest > 0 /\ strings[Newest].live /\ NobodyInstalls' => Used(blocks', b, k))
            => NewestIsSound'
    BY <2>2 DEF NewestIsSound
  <2> HIDE DEF b, k
  <2> QED
    BY <1>4, <1>10, <2>1, <2>3, <2>4 DEF SettledInv
<1> QED
  BY <1>7, <1>8, <1>9, <1>11 DEF SettledInv

\* The old block is given up by a callback that is not settled, and no copy is
\* that block: nothing is said of the newest String until one is installed.
LEMMA ResetOldSettled ==
    ASSUME IInv, SettledInv, NEW c \in Callbacks, ResetOld(c), ~damaged'
    PROVE  SettledInv'
<1> DEFINE b == strings[Newest].block
<1>1. /\ UNCHANGED <<starter, strings, arg, fresh, buf, settled>>
      /\ pc[c] = "reset" /\ Live(c) /\ pc' = [pc EXCEPT ![c] = "install"]
      /\ Release(Data(c).block)
  BY DEF ResetOld, Reset, Data, Goto, Live, InFlight
<1>2. pc'[c] = "install" /\ \A d \in Callbacks : d # c => pc'[d] = pc[d]
  BY <1>1, Ranges
<1>3. \A d \in Callbacks : (Live(d)' <=> Live(d)) /\ (Copying(d)' <=> Copying(d))
  BY <1>1, <1>2 DEF Live, InFlight, Data, Copying
<1>4. b \in 1..Len(blocks) /\ Release(b) /\ blocks \in Seq(ABlock)
  BY <1>1, LiveFacts, Ranges
<1>5. \A a \in Nat, k \in Nat : a # b /\ Used(blocks, a, k) => Used(blocks', a, k)
  <2> HIDE DEF b
  <2> QED
    BY <1>4, ReleaseUsed
<1>6. kext # "copy" /\ (kext = "started" => ~settled[c])
  BY <1>1 DEF SettledInv, LiveIsNewest, SettledReads
<1>7. NewestMayLive' /\ LiveIsNewest' /\ SettledAlike' /\ SubKnown'
  BY <1>1, <1>3, <1>6 DEF SettledInv, NewestMayLive, LiveIsNewest, SettledAlike, SubKnown, Newest
<1>8. SettledReads'
  BY <1>1, <1>2, <1>3, <1>6 DEF SettledInv, SettledReads, Newest
<1>9. FreshIsOwn'
  <2>1. \A d \in Callbacks : Copying(d) => Used(blocks, fresh[d], 1) /\ fresh[d] # b
    BY DEF SettledInv, FreshIsOwn
  <2>2. \A d \in Callbacks : Copying(d) => Used(blocks', fresh[d], 1)
    <3>1. \A d \in Callbacks : fresh[d] \in Nat
      BY Ranges
    <3> HIDE DEF b
    <3> QED
      BY <1>5, <2>1, <3>1
  <2> QED
    BY <1>1, <1>3, <2>2 DEF SettledInv, FreshIsOwn, Newest
<1>10. NewestIsSound'
  BY <1>1, <1>2, <1>3 DEF NewestIsSound, NobodyInstalls
<1> QED
  BY <1>7, <1>8, <1>9, <1>10 DEF SettledInv

\* The newest String gets a block that nobody else uses.
LEMMA InstallSettled ==
    ASSUME IInv, SettledInv, NEW c \in Callbacks, Install(c)
    PROVE  SettledInv'
<1> DEFINE e == [strings[Newest] EXCEPT !.block = fresh[c]]
<1>1. /\ UNCHANGED <<starter, blocks, arg, buf, settled>>
      /\ pc[c] = "install" /\ Live(c) /\ Copying(c) /\ pc' = [pc EXCEPT ![c] = "read"]
      /\ fresh' = [fresh EXCEPT ![c] = 0]
      /\ strings' = [strings EXCEPT ![arg[c]].block = fresh[c]]
  BY DEF Install, Goto, Live, InFlight, Copying
<1>2. /\ pc'[c] = "read"
      /\ \A d \in Callbacks : d # c => pc'[d] = pc[d] /\ fresh'[d] = fresh[d]
  BY <1>1, Ranges
<1>3. /\ arg[c] = Newest /\ Newest \in 1..Len(strings) /\ strings[Newest].live
      /\ strings[Newest] \in AString /\ fresh[c] \in Nat
  BY <1>1, LiveFacts, Ranges
<1>4. e \in AString /\ e.live /\ e.block = fresh[c]
  <2> DEFINE r == strings[Newest]
  <2>1. r \in AString /\ r.live
    BY <1>3
  <2> HIDE DEF r
  <2>2. \A n \in Nat : LET d == [r EXCEPT !.block = n] IN d \in AString /\ d.live /\ d.block = n
    BY <2>1 DEF AString
  <2> QED
    BY <1>3, <2>2 DEF r
<1>5. /\ Len(strings') = Len(strings) /\ strings'[Newest] = e
      /\ \A j \in 1..Len(strings) : j # Newest => strings'[j] = strings[j]
  <2>1. strings' = [strings EXCEPT ![Newest] = e] /\ strings \in Seq(AString)
    BY <1>1, <1>3, Ranges
  <2> HIDE DEF e
  <2> QED
    BY <1>3, <1>4, <2>1, ExceptKeeps
<1> HIDE DEF e
<1>6. Newest' = Newest /\ \A j \in 1..Len(strings) : strings'[j].live = strings[j].live
  BY <1>3, <1>4, <1>5, Ranges DEF Newest, AString
<1>7. \A d \in Callbacks : /\ Live(d)' <=> Live(d)
                           /\ Copying(d)' <=> (d # c /\ Copying(d))
  <2>1. \A d \in Callbacks : Live(d)' <=> Live(d)
    BY <1>1, <1>2, <1>6, Ranges DEF Live, InFlight, Data
  <2> QED
    BY <1>2, <2>1 DEF Copying
<1>8. kext # "copy" /\ (kext = "started" => ~settled[c])
  BY <1>1 DEF SettledInv, LiveIsNewest, SettledReads
<1>9. /\ Used(blocks, fresh[c], 1) /\ fresh[c] # sub
      /\ \A d \in Callbacks : d # c /\ Copying(d) => fresh[d] # fresh[c]
  BY <1>1 DEF SettledInv, FreshIsOwn
<1>10. NewestMayLive' /\ LiveIsNewest' /\ SettledAlike' /\ SubKnown'
  <2>1. NewestMayLive'
    BY <1>1, <1>3, <1>6 DEF SettledInv, NewestMayLive
  <2> QED
    BY <1>1, <1>6, <1>7, <1>8, <2>1 DEF SettledInv, LiveIsNewest, SettledAlike, SubKnown
<1>11. SettledReads'
  <2>1. kext = "started" => \A d \in Callbacks : Live(d) => ~settled[d]
    BY <1>1, <1>8 DEF SettledInv, SettledAlike
  <2> QED
    BY <1>1, <1>7, <2>1 DEF SettledReads
<1>12. FreshIsOwn'
  BY <1>1, <1>2, <1>4, <1>5, <1>6, <1>7, <1>9 DEF SettledInv, FreshIsOwn
<1>13. NewestIsSound'
  BY <1>1, <1>4, <1>5, <1>6, <1>9 DEF NewestIsSound
<1> QED
  BY <1>10, <1>11, <1>12, <1>13 DEF SettledInv

-----------------------------------------------------------------------------
(* The theorems.                                                            *)

\* What the kext starts from has the invariant.
LEMMA Initially == Init => IInv
<1> SUFFICES ASSUME Init PROVE IInv
  OBVIOUS
<1>1. TypeOK
  <2>1. strings = <<>> /\ blocks = <<>> /\ Len(strings) = 0 /\ Len(blocks) = 0
    BY DEF Init
  <2>2. /\ strings \in Seq([live : BOOLEAN, block : Nat])
        /\ \A s \in 1..Len(strings) : strings[s].block \in 1..Len(blocks)
        /\ blocks \in Seq([live : BOOLEAN, count : Int])
    BY <2>1
  <2>3. kext \in KextLabels /\ context \in BOOLEAN
    BY Zenon DEF Init, KextLabels
  <2>6. listener \in 0..0 /\ sub \in 0..0
    BY DEF Init
  <2>4. pc \in [Callbacks -> Labels] /\ arg \in [Callbacks -> 0..0]
        /\ path \in [Callbacks -> Paths] /\ fresh \in [Callbacks -> 0..0]
    BY DEF Init, Labels, Paths
  <2>5. buf \in [Callbacks -> 0..0] /\ verdict \in [Callbacks -> {"deny", "defer"}]
        /\ settled \in [Callbacks -> BOOLEAN]
    BY DEF Init
  <2>7. damaged \in BOOLEAN /\ raced \in BOOLEAN
    BY DEF Init
  <2> QED
    BY <2>1, <2>2, <2>3, <2>4, <2>5, <2>6, <2>7 DEF TypeOK
<1>2. CallbackHasData
  BY DEF Init, CallbackHasData
<1>3. OwnerInv
  BY DEF Init, OwnerInv, SubIsHeld, NewestLives, OwnerKnown, ListenerIsNewest
<1> QED
  BY <1>1, <1>2, <1>3 DEF IInv

\* Every step of start, of stop and of a callback keeps the invariant.
LEMMA Stepwise == IInv /\ [Next]_vars => IInv'
<1> SUFFICES ASSUME IInv, [Next]_vars PROVE IInv'
  OBVIOUS
<1>1. CASE StartStep
  BY <1>1, PlainStartSteps, StartStepInv, CopyDataInv, DropSubInv DEF StartStep
<1>2. CASE StopStep
  BY <1>2, PlainStartSteps, FreeDataInv DEF StopStep
<1>3. ASSUME NEW c \in Callbacks, CallbackStep(c) PROVE IInv'
  BY <1>3, PlainCallbackSteps, CopyInv, ResetOldInv, InstallInv DEF CallbackStep
<1>4. CASE UNCHANGED vars
  BY <1>4 DEF vars, IInv, TypeOK, CallbackHasData, OwnerInv, SubIsHeld, NewestLives,
         OwnerKnown, ListenerIsNewest, Newest
<1> QED
  BY <1>1, <1>2, <1>3, <1>4 DEF Next

\* The inductive invariant: types, what callbacks hold on to, and at every
\* label of start and stop who owns the listener and whether its data lives.
THEOREM Inductive == Spec => []IInv
BY Initially, Stepwise, PTL DEF Spec

\* Every variable keeps its type; a String never points at no block.
THEOREM TypesHold == Spec => []TypeOK
<1>1. IInv => TypeOK
  BY DEF IInv
<1> QED
  BY <1>1, Inductive, PTL

\* Between calls the kernel has a listener exactly when g_context owns it, and
\* its data lives until the step before kauth_unlisten_scope, whichever of the
\* steps of start failed and whatever callbacks do meanwhile.
THEOREM ListenerAlwaysOwned == Spec => []ListenerIsOwned
<1>1. IInv => ListenerIsOwned
  BY DEF IInv, OwnerInv, OwnerKnown, ListenerIsNewest, ListenerIsOwned
<1> QED
  BY <1>1, Inductive, PTL

\* What the kext starts from: no String, no callback.
LEMMA SettledInitially == Init => SettledInv
BY DEF Init, SettledInv, NewestMayLive, LiveIsNewest, SettledAlike, FreshIsOwn, Copying,
       NewestIsSound, SubKnown, SettledReads, Live, InFlight, Newest

\* What is damaged stays so.
LEMMA DamageStays ==
    ASSUME IInv, [Next]_vars
    PROVE  damaged => damaged'
<1>1. CASE StartStep
  BY <1>1 DEF StartStep, Start, CopyData, CopyDataFails, Listen, ListenFails, Wrap, WrapFails,
              Publish, PublishFails, DropSub, Release
<1>2. CASE StopStep
  BY <1>2 DEF StopStep, Stop, FreeData, Unlisten, Reset, Release
<1>3. ASSUME NEW c \in Callbacks, CallbackStep(c) PROVE damaged => damaged'
  BY <1>3 DEF CallbackStep, Enter, PathFails, ReadCount, Copy, CopyFails, ResetOld, Install,
              Read, Compare, Strays, Reset, Release
<1>4. CASE UNCHANGED vars
  BY <1>4 DEF vars
<1> QED
  BY <1>1, <1>2, <1>3, <1>4 DEF Next

\* Every step that damages nothing keeps what settled callbacks rely on.
LEMMA SettledStepwise ==
    IInv /\ (~damaged => SettledInv) /\ [Next]_vars => (~damaged => SettledInv)'
<1> SUFFICES ASSUME IInv, ~damaged => SettledInv, [Next]_vars, ~damaged' PROVE SettledInv'
  OBVIOUS
<1>0. SettledInv
  BY DamageStays
<1>1. CASE StartStep
  BY <1>0, <1>1, PlainStartSettled, StartSettled, CopyDataSettled, DropSubSettled DEF StartStep
<1>2. CASE StopStep
  BY <1>0, <1>2, PlainStartSettled, FreeDataSettled DEF StopStep
<1>3. ASSUME NEW c \in Callbacks, CallbackStep(c) PROVE SettledInv'
  BY <1>0, <1>3, EnterSettled, LeavingSettled, ReadCountSettled, CopySettled, CopyFailsSettled,
     ResetOldSettled, InstallSettled, ReadSettled DEF CallbackStep
<1>4. CASE UNCHANGED vars
  BY <1>0, <1>4 DEF vars, SettledInv, NewestMayLive, LiveIsNewest, SettledAlike, FreshIsOwn,
       Copying, NewestIsSound, NobodyInstalls, SubKnown, SettledReads, Live, InFlight, Data, Newest
<1> QED
  BY <1>1, <1>2, <1>3, <1>4 DEF Next

\* The strengthening: which String live callbacks have, whose the blocks they
\* make are, and how often the newest String's block is used.
THEOREM SettledInvariant == Spec => [](IInv /\ (~damaged => SettledInv))
<1>1. Init => (~damaged => SettledInv)
  BY SettledInitially
<1> QED
  BY <1>1, Initially, Stepwise, SettledStepwise, PTL DEF Spec

\* While nothing deleted was counted down, copied or written, callbacks that
\* began after start, and after all that raced it, only read, and what they
\* read is live: they neither copy the string they share nor read a deleted
\* block, however the earlier ones interleaved and failed (String.cpp:144,
\* Example.cpp:52).
THEOREM SettledCallbacksOnlyRead == Spec => []SettledOnlyReads
<1>1. IInv /\ (~damaged => SettledInv) => SettledOnlyReads
  <2> SUFFICES ASSUME IInv, SettledInv, NEW c \in Callbacks, Undisturbed(c), InFlight(c)
               PROVE  /\ pc[c] \in {"count", "read"} => DataBlock(c).live
                      /\ pc[c] = "compare" => blocks[buf[c]].live
                      /\ pc[c] \notin {"copy", "reset", "install"}
    BY DEF SettledOnlyReads, SettledReadsLive, SettledNeverCopies, InFlight
  <2>1. kext = "started" /\ settled[c] /\ arg[c] = listener
    BY DEF Undisturbed
  <2>2. Live(c)
    BY <2>1, Ranges DEF IInv, OwnerInv, ListenerIsNewest, Live, InFlight, Data
  <2>3. Used(blocks, strings[Newest].block, 1)
    BY <2>1, <2>2, SettledFinds
  <2>4. DataBlock(c).live
    BY <2>2, <2>3, LiveFacts DEF DataBlock, Used
  <2>5. /\ pc[c] \notin {"copy", "reset", "install"}
        /\ pc[c] = "compare" => buf[c] = strings[Newest].block
    BY <2>1, <2>2 DEF SettledInv, SettledReads
  <2> QED
    BY <2>3, <2>4, <2>5 DEF Used
<1> QED
  BY <1>1, SettledInvariant, PTL

-----------------------------------------------------------------------------
(* What it takes to damage anything.                                         *)

\* A pointer between its reset and its move was used, or a String deleted.
Caused == raced \/ \E c \in Callbacks : pc[c] = "astray"

\* The newest String shares the block of start's own.
SharesSub == /\ Newest > 0 /\ strings[Newest].live /\ strings[Newest].block = sub
             /\ NobodyInstalls

\* start's own string counts itself, and the copy that still shares its block.
SubUsed == sub # Nothing => Used(blocks, sub, IF SharesSub THEN 2 ELSE 1)

CauseInv == ~Caused => ~damaged /\ SubUsed

\* A cause stays one.
LEMMA CausedStays ==
    ASSUME IInv, [Next]_vars
    PROVE  Caused => Caused'
<1>1. CASE StartStep
  BY <1>1 DEF Caused, StartStep, Start, CopyData, CopyDataFails, Listen, ListenFails, Wrap,
              WrapFails, Publish, PublishFails, DropSub
<1>2. CASE StopStep
  BY <1>2 DEF Caused, StopStep, Stop, FreeData, Unlisten, Reset
<1>3. ASSUME NEW c \in Callbacks, CallbackStep(c) PROVE Caused => Caused'
  <2>1. pc[c] # "astray" /\ \E l \in Labels : pc' = [pc EXCEPT ![c] = l]
    BY <1>3 DEF CallbackStep, Enter, PathFails, ReadCount, Copy, CopyFails, ResetOld, Install,
                Read, Compare, Strays, Goto, Labels
  <2>2. raced => raced'
    BY <1>3 DEF CallbackStep, Enter, PathFails, ReadCount, Copy, CopyFails, ResetOld, Install,
                Read, Compare, Strays, Reset
  <2>3. \A d \in Callbacks : pc[d] = "astray" => pc'[d] = "astray"
    BY <2>1, Ranges
  <2> QED
    BY <2>2, <2>3 DEF Caused
<1>4. CASE UNCHANGED vars
  BY <1>4 DEF vars, Caused
<1> QED
  BY <1>1, <1>2, <1>3, <1>4 DEF Next

\* When no pointer is between its reset and its move, what a String with a
\* callback under way points to is used.
LEMMA PointsToUsed ==
    ASSUME IInv, SettledInv, NEW s \in 1..Len(strings), s = Newest, strings[s].live, ~Replaced(s)
    PROVE  /\ NobodyInstalls /\ strings[s].block \in 1..Len(blocks)
           /\ Used(blocks, strings[s].block, IF strings[s].block = sub THEN 2 ELSE 1)
<1>1. NobodyInstalls
  BY DEF NobodyInstalls, Replaced, SettledInv, LiveIsNewest
<1>2. Newest > 0 /\ strings[s].block \in 1..Len(blocks)
  BY Ranges DEF Newest
<1> QED
  BY <1>1, <1>2 DEF SettledInv, NewestIsSound

\* A reset of a block in use damages nothing.
LEMMA ReleaseOfUsed ==
    ASSUME NEW b, NEW n, Used(blocks, b, n), Release(b)
    PROVE  UNCHANGED damaged
BY DEF Used, Release

\* A step that leaves start's string, the newest String and the installing
\* callbacks alone leaves what start's string counts.
LEMMA SubUndisturbed ==
    ASSUME SubUsed, UNCHANGED <<strings, blocks, sub>>, NobodyInstalls' <=> NobodyInstalls
    PROVE  SubUsed'
BY DEF SubUsed, SharesSub, Used, Newest

\* The steps of start and stop that touch no count.
LEMMA PlainStartCause ==
    ASSUME IInv, SettledInv, SubUsed, ~damaged,
           \/ CopyDataFails \/ Listen \/ ListenFails \/ Wrap \/ WrapFails
           \/ Publish \/ PublishFails \/ Stop \/ Unlisten
    PROVE  ~damaged' /\ SubUsed'
<1>1. UNCHANGED <<strings, heap, sub, runner>>
  BY DEF CopyDataFails, Listen, ListenFails, Wrap, WrapFails, Publish, PublishFails,
         Stop, Unlisten
<1>2. NobodyInstalls' <=> NobodyInstalls
  BY <1>1 DEF NobodyInstalls, Live, InFlight, Data
<1> QED
  BY <1>1, <1>2, SubUndisturbed

\* start makes its string, and shares it with nobody.
LEMMA StartCause ==
    ASSUME IInv, SettledInv, ~damaged, Start
    PROVE  ~damaged' /\ SubUsed'
<1>1. /\ UNCHANGED <<strings, damaged>> /\ kext = "unloaded" /\ NewBlock
      /\ sub' = Len(blocks) + 1
  BY DEF Start
<1>2. ~(Newest > 0 /\ strings[Newest].live)
  BY <1>1 DEF SettledInv, NewestMayLive
<1>3. ~SharesSub'
  BY <1>1, <1>2 DEF SharesSub, Newest
<1>4. Used(blocks', sub', 1)
  BY <1>1, NewBlockUsed, Ranges
<1> QED
  BY <1>1, <1>3, <1>4 DEF SubUsed

\* The heap copy shares it; no callback has that String yet.
LEMMA CopyDataCause ==
    ASSUME IInv, SettledInv, ~damaged, CopyData
    PROVE  ~damaged' /\ SubUsed'
<1>1. SettledInv' /\ UNCHANGED <<sub, damaged>>
  BY CopyDataSettled DEF CopyData
<1> DEFINE e == [live |-> TRUE, block |-> sub]
<1>2. /\ kext = "copy" /\ strings' = Append(strings, e) /\ UNCHANGED runner /\ Retain(sub)
  BY DEF CopyData
<1>3. Used(blocks, sub, 1) /\ sub \in 1..Len(blocks)
  BY <1>2 DEF SettledInv, SubKnown, Used
<1>4. Used(blocks', sub, 2)
  BY <1>2, <1>3, Ranges, RetainUsed DEF Used
<1>5. e \in AString /\ e.block = sub /\ e.live
  BY <1>3, Ranges DEF AString
<1>6. /\ Len(strings') = Len(strings) + 1 /\ strings'[Len(strings')] = e
      /\ \A j \in 1..Len(strings) : strings'[j] = strings[j]
  <2> HIDE DEF e
  <2> QED
    BY <1>2, <1>5, Ranges, AppendKeeps
<1>7. \A c \in Callbacks : ~Live(c)'
  BY <1>2, <1>6, Ranges DEF SettledInv, LiveIsNewest, Live, InFlight, Data
<1>8. SharesSub'
  BY <1>1, <1>5, <1>6, <1>7, Ranges DEF SharesSub, Newest, NobodyInstalls
<1> QED
  BY <1>1, <1>4, <1>8 DEF SubUsed

\* start's string is used until it goes, and then it is gone.
LEMMA DropSubCause ==
    ASSUME IInv, SubUsed, ~damaged, DropSub
    PROVE  ~damaged' /\ SubUsed'
<1>1. Release(sub) /\ sub' = 0 /\ kext \in {"dropStarted", "dropFailed"}
  BY DEF DropSub
<1>2. sub # 0
  BY <1>1 DEF IInv, OwnerInv, SubIsHeld
<1>3. UNCHANGED damaged
  BY <1>1, <1>2, ReleaseOfUsed DEF SubUsed
<1> QED
  BY <1>1, <1>3 DEF SubUsed

\* The newest String goes, and with it what it shared.
LEMMA FreeDataCause ==
    ASSUME IInv, SettledInv, SubUsed, ~damaged, FreeData, ~raced'
    PROVE  ~damaged' /\ SubUsed'
<1> DEFINE n == Len(strings)
           b == strings[n].block
<1>1. /\ UNCHANGED sub /\ Release(b) /\ ~Replaced(n) /\ kext \in {"free", "destroy"}
      /\ strings' = [strings EXCEPT ![n].live = FALSE]
  BY DEF FreeData, Reset
<1>2. n \in 1..Len(strings) /\ n = Newest /\ strings[n].live
  BY <1>1, Ranges DEF IInv, OwnerInv, NewestLives, Newest
<1>3. /\ NobodyInstalls /\ b \in 1..Len(blocks)
      /\ Used(blocks, b, IF b = sub THEN 2 ELSE 1)
  BY <1>1, <1>2, PointsToUsed
<1>4. UNCHANGED damaged
  BY <1>1, <1>3, ReleaseOfUsed
<1>5. ~SharesSub'
  <2>1. Len(strings') = n /\ strings'[n].live = FALSE
    BY <1>1, <1>2, Ranges DEF AString
  <2> QED
    BY <2>1 DEF SharesSub, Newest
<1>6. sub # 0 => Used(blocks', sub, 1)
  <2>1. blocks \in Seq(ABlock) /\ sub \in Nat /\ ~damaged'
    BY <1>4, Ranges
  <2>2. /\ Used(blocks, b, 2) => Used(blocks', b, 1)
        /\ \A a \in Nat, k \in Nat : a # b /\ Used(blocks, a, k) => Used(blocks', a, k)
    <3> HIDE DEF b
    <3> QED
      BY <1>1, <1>3, <2>1, ReleaseUsed
  <2>3. b = sub <=> SharesSub
    BY <1>2, <1>3, Ranges DEF SharesSub, Newest
  <2> HIDE DEF b
  <2> QED
    BY <1>3, <2>1, <2>2, <2>3 DEF SubUsed
<1> QED
  BY <1>1, <1>4, <1>5, <1>6 DEF SubUsed

\* The callback steps that touch no count, and neither begin nor end between a
\* reset and its move.
LEMMA PlainCallbackCause ==
    ASSUME IInv, SettledInv, SubUsed, ~damaged, NEW c \in Callbacks, ~Caused',
           \/ \E p \in Paths : Enter(c, p)
           \/ PathFails(c) \/ ReadCount(c) \/ CopyFails(c) \/ Read(c)
           \/ Compare(c) \/ Strays(c)
    PROVE  ~damaged' /\ SubUsed'
<1>1. ~Strays(c)
  <2>1. Strays(c) => pc'[c] = "astray"
    BY Ranges DEF Strays, Goto
  <2> QED
    BY <2>1 DEF Caused
<1>2. UNCHANGED <<strings, heap, sub>>
  BY <1>1 DEF Enter, PathFails, ReadCount, CopyFails, Read, Compare
<1>3. /\ \A d \in Callbacks : d # c => pc'[d] = pc[d] /\ arg'[d] = arg[d]
      /\ pc[c] # "install" /\ pc'[c] # "install"
  <2>1. \E l \in Labels \ {"install"} : pc' = [pc EXCEPT ![c] = l]
    BY <1>1 DEF Enter, PathFails, ReadCount, CopyFails, Read, Compare, Goto, Labels
  <2>2. arg' = arg \/ arg' = [arg EXCEPT ![c] = listener]
    BY <1>1 DEF Enter, PathFails, ReadCount, CopyFails, Read, Compare
  <2>3. pc[c] # "install"
    BY <1>1 DEF Enter, PathFails, ReadCount, CopyFails, Read, Compare
  <2> QED
    BY <2>1, <2>2, <2>3, Ranges
<1>4. NobodyInstalls' <=> NobodyInstalls
  BY <1>2, <1>3 DEF NobodyInstalls, Live, InFlight, Data
<1> QED
  BY <1>2, <1>4, SubUndisturbed

\* What is copied is in use, for nobody is replacing it.
LEMMA CopyCause ==
    ASSUME IInv, SettledInv, SubUsed, ~damaged, NEW c \in Callbacks, Copy(c), ~raced'
    PROVE  ~damaged' /\ SubUsed'
<1>1. /\ UNCHANGED <<strings, sub, arg>> /\ NewBlock /\ ~Replaced(arg[c]) /\ Live(c)
      /\ damaged' = (damaged \/ ~DataBlock(c).live)
      /\ pc[c] = "copy" /\ pc' = [pc EXCEPT ![c] = "reset"]
  BY DEF Copy, Goto, Live, InFlight
<1>2. ~damaged'
  <2>1. arg[c] = Newest /\ Newest \in 1..Len(strings) /\ strings[Newest].live
    BY <1>1, LiveFacts
  <2> QED
    BY <1>1, <2>1, PointsToUsed DEF Used, DataBlock, Data
<1>3. NobodyInstalls' <=> NobodyInstalls
  <2>1. pc'[c] = "reset" /\ \A d \in Callbacks : d # c => pc'[d] = pc[d]
    BY <1>1, Ranges
  <2> QED
    BY <1>1, <2>1 DEF NobodyInstalls, Live, InFlight, Data
<1>4. SubUsed'
  <2>1. SharesSub' <=> SharesSub
    BY <1>1, <1>3 DEF SharesSub, Newest
  <2>2. \A a \in Nat, n \in Nat : Used(blocks, a, n) => Used(blocks', a, n)
    BY <1>1, NewBlockUsed, Ranges
  <2> DEFINE k == IF SharesSub THEN 2 ELSE 1
  <2>3. sub \in Nat /\ k \in Nat /\ sub' = sub /\ k' = k
    BY <1>1, <2>1, Ranges
  <2>4. SubUsed <=> (sub # 0 => Used(blocks, sub, k))
    BY DEF SubUsed
  <2>5. SubUsed' <=> (sub' # 0 => Used(blocks', sub', k'))
    BY DEF SubUsed
  <2> HIDE DEF k
  <2> QED
    BY <2>2, <2>3, <2>4, <2>5
<1> QED
  BY <1>2, <1>4

\* The old block is in use, for nobody else has reset the pointer to it.
LEMMA ResetOldCause ==
    ASSUME IInv, SettledInv, SubUsed, ~damaged, NEW c \in Callbacks, ResetOld(c), ~raced'
    PROVE  ~damaged' /\ SubUsed'
<1> DEFINE b == strings[Newest].block
<1>1. /\ UNCHANGED <<strings, sub, arg>> /\ ~Replaced(arg[c]) /\ Live(c)
      /\ Release(strings[arg[c]].block) /\ pc[c] = "reset" /\ pc' = [pc EXCEPT ![c] = "install"]
  BY DEF ResetOld, Reset, Goto, Live, InFlight
<1>2. arg[c] = Newest /\ Newest \in 1..Len(strings) /\ strings[Newest].live
  BY <1>1, LiveFacts
<1>3. /\ NobodyInstalls /\ b \in 1..Len(blocks)
      /\ Used(blocks, b, IF b = sub THEN 2 ELSE 1)
  BY <1>1, <1>2, PointsToUsed
<1>4. UNCHANGED damaged
  BY <1>1, <1>2, <1>3, ReleaseOfUsed
<1>5. ~SharesSub'
  <2>1. Live(c)' /\ pc'[c] = "install"
    BY <1>1, Ranges DEF Live, InFlight, Data
  <2> QED
    BY <2>1 DEF SharesSub, NobodyInstalls
<1>6. sub # 0 => Used(blocks', sub, 1)
  <2>1. blocks \in Seq(ABlock) /\ sub \in Nat /\ ~damaged'
    BY <1>4, Ranges
  <2>2. /\ Used(blocks, b, 2) => Used(blocks', b, 1)
        /\ \A a \in Nat, k \in Nat : a # b /\ Used(blocks, a, k) => Used(blocks', a, k)
    <3> HIDE DEF b
    <3> QED
      BY <1>1, <1>2, <1>3, <2>1, ReleaseUsed DEF b
  <2>3. b = sub <=> SharesSub
    BY <1>2, <1>3, Ranges DEF SharesSub, Newest
  <2> HIDE DEF b
  <2> QED
    BY <1>3, <2>1, <2>2, <2>3 DEF SubUsed
<1> QED
  BY <1>1, <1>4, <1>5, <1>6 DEF SubUsed

\* The String that was between a reset and a move leaves start's alone.
LEMMA InstallCause ==
    ASSUME IInv, SettledInv, SubUsed, ~damaged, NEW c \in Callbacks, Install(c)
    PROVE  ~damaged' /\ SubUsed'
<1>1. /\ UNCHANGED <<heap, sub>> /\ pc[c] = "install" /\ Live(c) /\ Copying(c)
      /\ strings' = [strings EXCEPT ![arg[c]].block = fresh[c]]
  BY DEF Install, Live, InFlight, Copying
<1>2. ~SharesSub
  BY <1>1 DEF SharesSub, NobodyInstalls
<1>3. arg[c] = Newest /\ Newest \in 1..Len(strings) /\ fresh[c] # sub
  BY <1>1, LiveFacts DEF SettledInv, FreshIsOwn
<1>4. ~SharesSub'
  <2>1. Newest' = Newest /\ strings'[Newest].block = fresh[c]
    BY <1>1, <1>3, Ranges DEF Newest, AString
  <2> QED
    BY <1>1, <1>3, <2>1 DEF SharesSub
<1> QED
  BY <1>1, <1>2, <1>4 DEF SubUsed, Used

\* Every step without a cause damages nothing.
LEMMA CauseStepwise ==
    IInv /\ (~damaged => SettledInv) /\ CauseInv /\ [Next]_vars => CauseInv'
<1> SUFFICES ASSUME IInv, ~damaged => SettledInv, CauseInv, [Next]_vars, ~Caused'
             PROVE  ~damaged' /\ SubUsed'
  BY DEF CauseInv
<1>0. ~damaged /\ SubUsed /\ SettledInv /\ ~raced'
  BY CausedStays DEF CauseInv, Caused
<1>1. CASE StartStep
  BY <1>0, <1>1, PlainStartCause, StartCause, CopyDataCause, DropSubCause DEF StartStep
<1>2. CASE StopStep
  BY <1>0, <1>2, PlainStartCause, FreeDataCause DEF StopStep
<1>3. ASSUME NEW c \in Callbacks, CallbackStep(c) PROVE ~damaged' /\ SubUsed'
  BY <1>0, <1>3, PlainCallbackCause, CopyCause, ResetOldCause, InstallCause DEF CallbackStep
<1>4. CASE UNCHANGED vars
  <2>1. NobodyInstalls' <=> NobodyInstalls
    BY <1>4 DEF vars, NobodyInstalls, Live, InFlight, Data
  <2> QED
    BY <1>0, <1>4, <2>1, SubUndisturbed DEF vars
<1> QED
  BY <1>1, <1>2, <1>3, <1>4 DEF Next

\* What is deleted is counted down, copied or written only after two uses of a
\* pointer overlapped, one of them between its reset and its move, or a
\* callback's String was deleted under it: no other order of start, stop,
\* failures and callbacks gets a count wrong (SharedPtr.hpp:127-151).
THEOREM DamageNeedsARace == Spec => []DamageHasCause
<1>1. Init => CauseInv
  BY DEF Init, CauseInv, SubUsed
<1>2. CauseInv => DamageHasCause
  BY DEF CauseInv, Caused, DamageHasCause
<1> QED
  BY <1>1, <1>2, Initially, Stepwise, SettledInitially, SettledStepwise, CauseStepwise, PTL
     DEF Spec

=============================================================================
