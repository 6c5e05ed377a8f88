-------------------------------- MODULE Bpc --------------------------------
(***************************************************************************)
(* examples/bpc: producer tasks that add consumers and one more producer   *)
(* each, before or after the consumers.  What the tasks count is reached   *)
(* through common local objects.  The work the tasks do and their index    *)
(* are left out.                                                           *)
(***************************************************************************)
EXTENDS Library

\* The program's own numbering of its classes.
ProducerClass == 1
ConsumerClass == 2

\* create_task, built with NO_INPLACE.
CreateTask(class, level, keys) ==
  <<Create(class), Add(class, [level |-> level, keys |-> keys]), Destroy(class)>>

Count(keys) == <<[op |-> "bump", keys |-> keys]>>

HasChildren(a, level) == level < a.maxdepth

ProducerTask(a, b) ==
  LET producer  == CreateTask(ProducerClass, b.level + 1, b.keys)
      consumers == FlattenSeq([i \in 1..a.nchildren |->
                                 CreateTask(ConsumerClass, b.level + 1, b.keys)])
  IN  (IF ~HasChildren(a, b.level) THEN <<>>
       ELSE IF a.bouncing THEN producer \o consumers ELSE consumers \o producer)
      \o Count(<<b.keys[1], b.keys[2]>>)

ConsumerTask(b) == Count(<<b.keys[1], b.keys[3]>>)

BpcBody(a, fcn, b) ==
  IF fcn = "producer_task_fcn" THEN ProducerTask(a, b) ELSE ConsumerTask(b)

BpcSeed(a, keys) ==
  FlattenSeq([i \in 1..a.initial |-> CreateTask(ProducerClass, 0, keys)])

BpcExpected(a) ==
  LET producers == a.initial * (a.maxdepth + 1)
      consumers == a.initial * (a.maxdepth * a.nchildren)
  IN  [ntasks |-> producers + consumers, nproducers |-> producers,
       nconsumers |-> consumers]

\* Mutated form: a process other than the first registers the classes in the other
\* order.
ClassesByRank(p) ==
  IF p = 0 THEN <<Class("producer_task_fcn"), Class("consumer_task_fcn")>>
  ELSE <<Class("consumer_task_fcn"), Class("producer_task_fcn")>>

BpcClasses(p) == <<Class("producer_task_fcn"), Class("consumer_task_fcn")>>

BpcMain(a, n, p) ==
  GtcInit \o GtcCreate(CfgInit)
  \o <<Associate("ntasks"), Associate("nproducers"), Associate("nconsumers")>>
  \o BpcClasses(p)
  \o (IF p = 0 THEN <<Step("seed")>> ELSE <<>>)
  \o GtcProcess
  \o <<Reduce("sum", <<"ntasks", "nproducers", "nconsumers">>), Barrier>>
  \o GtcPrintStats(n, p, FALSE) \o <<Barrier>> \o GtcDestroy \o GtcFini
=============================================================================
