-------------------------- MODULE Services_proofs ---------------------------
(***************************************************************************)
(* The facilitator services: what one that has started is worth, and one   *)
(* that has not, for any list of networks and any environment; and what a  *)
(* Go and a TypeScript one promise together, for any number of calls.      *)
(***************************************************************************)
EXTENDS FacilitatorStartup, TwoFacilitators, TLAPS

-----------------------------------------------------------------------------
(* Starting: how far the walk is says what has been found.                 *)

Networks == DOMAIN SuffixOf

Status == {"reading", "resolving", "registering", "serving"} \cup Stopped

Service == [status : Status, next : Nat, missing : SUBSET Networks,
            keys : SUBSET Networks, gas : Nat]

\* The networks before the n-th entry of the list.
Walked(n) == {networks[i] : i \in 1..(n - 1)} \ {Blank}

Found(service, n) ==
  /\ service.missing = {network \in Walked(n) : Incomplete(network)}
  /\ service.keys = {network \in Walked(n) : ~Incomplete(network)}

InputInv ==
  /\ networks \in Seq(Networks \cup {Blank})
  /\ port \in [form : {"digits", "suffixed", "text"}, n : Int]
  /\ motes \in Nat

GoInv ==
  /\ go \in Service
  /\ go.next \in 1..(Len(networks) + 1)
  /\ Found(go, go.next)
  /\ \A network \in go.keys : GoKeyLoads(network)
  /\ go.status \in {"reading", "resolving", "bad port", "bad key", "incomplete",
                    "no networks", "serving"}
  /\ go.status \in {"incomplete", "serving"} => go.next = Len(networks) + 1
  /\ go.status = "serving" => go.missing = {} /\ Listed(networks) # {}
  /\ go.status \in {"resolving", "serving"} => port.form = "digits"
  /\ go.status = "serving" => GoListensAt(port.n)

HasUnusableKey ==
  \E network \in Listed(networks) : ~JsKnowsAlgorithm(network) \/ Of(network).pem # "good"

\* The TypeScript service walks through the list twice.
JsInv ==
  /\ js \in Service
  /\ js.next \in 1..(Len(networks) + 1)
  /\ js.status = "reading" => js.next = 1 /\ js.missing = {} /\ js.keys = {}
  /\ js.status \in {"resolving", "registering", "serving"} => Listed(networks) # {}
  /\ js.status = "resolving" => Found(js, js.next)
  /\ js.status \in {"registering", "serving", "incomplete"} =>
       Found(js, Len(networks) + 1)
  /\ js.status \in {"registering", "serving"} =>
       js.missing = {} /\ \A network \in Walked(js.next) : Of(network).pem = "good"
  /\ js.status = "serving" => js.next = Len(networks) + 1
  /\ js.status = "incomplete" => js.missing # {}
  /\ js.status = "no networks" => Listed(networks) = {}
  /\ js.status = "bad gas" => motes = 0
  /\ js.status = "bad port" => ~JsPortIsGood
  /\ js.status = "bad key" => HasUnusableKey
  /\ js.status # "no key"

IInv == InputInv /\ GoInv /\ JsInv

-----------------------------------------------------------------------------
(* Starting: the walk.                                                     *)

\* Nothing is walked before the first entry.
LEMMA WalkStarts ==
  Walked(1) = {}
  BY DEF Walked

\* One more entry walked is one more network, if it is not blank.
LEMMA WalkGoesOn ==
  ASSUME InputInv, NEW n \in 1..Len(networks)
  PROVE  Walked(n + 1) = Walked(n) \cup ({networks[n]} \ {Blank})
<1>1. 1..((n + 1) - 1) = 1..(n - 1) \cup {n}
  OBVIOUS
<1> QED
  BY <1>1 DEF Walked

\* After the last entry, all that is listed has been walked.
LEMMA WalkEnds ==
  ASSUME InputInv
  PROVE  Walked(Len(networks) + 1) = Listed(networks)
<1>1. DOMAIN networks = 1..((Len(networks) + 1) - 1)
  BY DEF InputInv
<1> QED
  BY <1>1 DEF Walked, Listed, ToSet

\* A network that is listed is one the suffix is known of.
LEMMA EntryIsNetwork ==
  ASSUME InputInv, NEW n \in 1..Len(networks), networks[n] # Blank
  PROVE  networks[n] \in Networks /\ networks[n] \in Listed(networks)
<1>1. n \in DOMAIN networks /\ networks[n] \in Networks \cup {Blank}
  BY DEF InputInv
<1> QED
  BY <1>1 DEF Listed, ToSet

-----------------------------------------------------------------------------
(* Starting: the invariant holds initially and every action keeps it.      *)

\* The initial states satisfy the invariant.
LEMMA InitIInv ==
  ASSUME Init
  PROVE  IInv
<1>1. InputInv
  BY ListsAssumption, PortsAssumption, GasAssumption DEF Init, InputInv, Networks
<1>2. 1 \in 1..(Len(networks) + 1)
  BY <1>1 DEF InputInv
<1>3. Starting \in Service
  BY GasAssumption DEF Starting, Service, Status
<1>4. GoInv
  <2>1. go.missing = {} /\ go.keys = {} /\ go.next = 1 /\ go.status = "reading"
    BY DEF Init, Starting
  <2>2. Found(go, go.next)
    BY <2>1, WalkStarts DEF Found
  <2> QED
    BY <1>2, <1>3, <2>1, <2>2 DEF Init, GoInv
<1>5. JsInv
  <2>1. js.missing = {} /\ js.keys = {} /\ js.next = 1 /\ js.status = "reading"
    BY DEF Init, Starting
  <2> QED
    BY <1>2, <1>3, <2>1 DEF Init, JsInv
<1> QED
  BY <1>1, <1>4, <1>5 DEF IInv

\* The inputs do not change, and with them what is listed, complete and loadable.
LEMMA InputKept ==
  ASSUME UNCHANGED <<networks, port, env>>
  PROVE  /\ \A n : Walked(n)' = Walked(n)
         /\ \A x : Incomplete(x)' = Incomplete(x)
         /\ \A x : Of(x)' = Of(x)
         /\ \A x : GoKeyLoads(x)' = GoKeyLoads(x)
         /\ \A x : JsKnowsAlgorithm(x)' = JsKnowsAlgorithm(x)
         /\ Listed(networks)' = Listed(networks)
         /\ HasUnusableKey => HasUnusableKey'
         /\ ~JsPortIsGood => ~JsPortIsGood'
         /\ GoListensAt(port.n)' = GoListensAt(port.n)
<1>1. JsPortIsGood' = JsPortIsGood
  BY DEF JsPortIsGood
<1>2. GoListensAt(port.n)' = GoListensAt(port.n)
  BY DEF GoListensAt
<1> QED
  BY <1>1, <1>2 DEF Walked, Incomplete, Of, GoKeyLoads, JsKnowsAlgorithm, HasUnusableKey

\* What one more entry adds to what has been found.
LEMMA FoundGoesOn ==
  ASSUME InputInv, NEW n \in 1..Len(networks), NEW service, Found(service, n),
         NEW next, next.missing = service.missing \cup
                     (IF networks[n] # Blank /\ Incomplete(networks[n])
                      THEN {networks[n]} ELSE {}),
         next.keys = service.keys \cup
                     (IF networks[n] # Blank /\ ~Incomplete(networks[n])
                      THEN {networks[n]} ELSE {})
  PROVE  Found(next, n + 1)
<1> DEFINE W == Walked(n)
           x == networks[n]
<1>1. Walked(n + 1) = W \cup ({x} \ {Blank})
  BY WalkGoesOn
<1>2. /\ service.missing = {network \in W : Incomplete(network)}
      /\ service.keys = {network \in W : ~Incomplete(network)}
  BY DEF Found
<1> HIDE DEF W, x
<1> SUFFICES /\ next.missing = {network \in W \cup ({x} \ {Blank}) : Incomplete(network)}
             /\ next.keys = {network \in W \cup ({x} \ {Blank}) : ~Incomplete(network)}
  BY <1>1 DEF Found
<1> QED
  BY <1>2 DEF x

\* GoResolve keeps the invariant.
LEMMA GoResolveStep ==
  ASSUME IInv, GoResolve
  PROVE  GoInv'
<1> DEFINE x == networks[go.next]
<1>1. /\ go \in Service /\ go.status = "resolving"
      /\ go.next \in 1..Len(networks) /\ go.next + 1 \in 1..(Len(networks) + 1)
      /\ Found(go, go.next) /\ port.form = "digits"
      /\ UNCHANGED <<networks, port, env>>
  <2>1. Len(networks) \in Nat
    BY DEF IInv, InputInv
  <2>2. /\ go.next \in 1..(Len(networks) + 1) /\ go \in Service /\ Found(go, go.next)
        /\ go.status = "resolving" => port.form = "digits"
    BY DEF IInv, GoInv
  <2>3. go.next <= Len(networks) /\ go.status = "resolving" /\ UNCHANGED <<networks, port, env>>
    BY DEF GoResolve
  <2> QED
    BY <2>1, <2>2, <2>3
<1>2. x # Blank => x \in Networks
  BY <1>1, EntryIsNetwork DEF IInv
<1>3. \/ /\ \/ x = Blank /\ go' = [go EXCEPT !.next = @ + 1]
            \/ /\ x # Blank /\ Incomplete(x)
               /\ go' = [go EXCEPT !.next = @ + 1, !.missing = @ \cup {x}]
            \/ /\ x # Blank /\ ~Incomplete(x) /\ GoKeyLoads(x)
               /\ go' = [go EXCEPT !.next = @ + 1, !.keys = @ \cup {x}]
      \/ go' = [go EXCEPT !.status = "bad key"]
  BY <1>1 DEF GoResolve, Service
<1>4. CASE go' = [go EXCEPT !.status = "bad key"]
  <2>1. /\ go' \in Service /\ go'.next = go.next /\ go'.missing = go.missing
        /\ go'.keys = go.keys /\ go'.status = "bad key"
    BY <1>1, <1>4 DEF Service, Status, Stopped
  <2>2. Found(go, go.next)'
    BY <1>1, <2>1, InputKept DEF Found
  <2> QED
    BY <1>1, <2>1, <2>2, InputKept DEF GoInv, IInv
<1>5. CASE go' # [go EXCEPT !.status = "bad key"]
  <2>1. /\ go' \in Service /\ go'.status = "resolving" /\ go'.next = go.next + 1
        /\ go'.missing = go.missing \cup
             (IF x # Blank /\ Incomplete(x) THEN {x} ELSE {})
        /\ go'.keys = go.keys \cup
             (IF x # Blank /\ ~Incomplete(x) THEN {x} ELSE {})
    <3> DEFINE i == Incomplete(x)
    <3> HIDE DEF x, i
    <3>1. go.next + 1 \in Nat
      BY <1>1
    <3>2. CASE x = Blank /\ go' = [go EXCEPT !.next = @ + 1]
      BY <1>1, <3>1, <3>2 DEF Service
    <3>3. CASE x # Blank /\ i /\ go' = [go EXCEPT !.next = @ + 1, !.missing = @ \cup {x}]
      BY <1>1, <1>2, <3>1, <3>3 DEF Service, i
    <3>4. CASE x # Blank /\ ~i /\ go' = [go EXCEPT !.next = @ + 1, !.keys = @ \cup {x}]
      BY <1>1, <1>2, <3>1, <3>4 DEF Service, i
    <3> QED
      BY <1>3, <1>5, <3>2, <3>3, <3>4 DEF i
  <2>2. Found(go', go.next + 1)
    BY <1>1, <2>1, FoundGoesOn DEF IInv
  <2>3. Found(go, go.next)'
    BY <1>1, <2>1, <2>2, InputKept DEF Found
  <2>4. \A network \in go'.keys : GoKeyLoads(network)
    <3> HIDE DEF x
    <3> QED
      BY <1>1, <1>3, <1>5, <2>1 DEF IInv, GoInv, Service
  <2> QED
    BY <1>1, <2>1, <2>3, <2>4, InputKept DEF GoInv
<1> QED
  BY <1>4, <1>5

\* GoMain keeps the invariant.
LEMMA GoMainStep ==
  ASSUME IInv, GoMain
  PROVE  GoInv'
<1>1. /\ go \in Service /\ go.next = Len(networks) + 1 /\ Found(go, go.next)
      /\ go.next \in 1..(Len(networks) + 1)
      /\ port.form = "digits" /\ \A network \in go.keys : GoKeyLoads(network)
      /\ UNCHANGED <<networks, port, env>>
  <2>1. Len(networks) \in Nat
    BY DEF IInv, InputInv
  <2>2. /\ go.next \in 1..(Len(networks) + 1) /\ go \in Service /\ Found(go, go.next)
        /\ go.status = "resolving" => port.form = "digits"
        /\ \A network \in go.keys : GoKeyLoads(network)
    BY DEF IInv, GoInv
  <2>3. go.next > Len(networks) /\ go.status = "resolving" /\ UNCHANGED <<networks, port, env>>
    BY DEF GoMain
  <2> QED
    BY <2>1, <2>2, <2>3
<1>2. go.missing \cup go.keys = Listed(networks)
  BY <1>1, WalkEnds DEF IInv, Found
<1>3. go' = [go EXCEPT !.status =
               IF go.missing # {} THEN "incomplete"
               ELSE IF Listed(networks) = {} THEN "no networks"
               ELSE IF ~GoListensAt(port.n) THEN "bad port"
               ELSE "serving"]
  BY <1>2 DEF GoMain
<1>4. /\ go' \in Service /\ go'.next = go.next /\ go'.missing = go.missing
      /\ go'.keys = go.keys
      /\ go'.status \in {"incomplete", "no networks", "bad port", "serving"}
      /\ go'.status = "serving" =>
           go.missing = {} /\ Listed(networks) # {} /\ GoListensAt(port.n)
  BY <1>1, <1>3 DEF Service, Status, Stopped
<1>5. Found(go, go.next)'
  BY <1>1, <1>4, InputKept DEF Found
<1> QED
  BY <1>1, <1>4, <1>5, InputKept DEF GoInv

\* GoParse keeps the invariant.
LEMMA GoParseStep ==
  ASSUME IInv, GoParse
  PROVE  GoInv'
<1>1. /\ go \in Service /\ Found(go, go.next) /\ go.next \in 1..(Len(networks) + 1)
      /\ \A network \in go.keys : GoKeyLoads(network)
      /\ UNCHANGED <<networks, port, env>>
  BY DEF IInv, GoInv, GoParse
<1>2. PICK status \in {"resolving", "bad port"} :
        /\ go' = [go EXCEPT !.status = status]
        /\ status = "resolving" => port.form = "digits"
  BY DEF GoParse
<1>3. /\ go' \in Service /\ go'.next = go.next /\ go'.missing = go.missing
      /\ go'.keys = go.keys /\ go'.status = status
  BY <1>1, <1>2 DEF Service, Status, Stopped
<1>4. Found(go, go.next)'
  BY <1>1, <1>3, InputKept DEF Found
<1> QED
  BY <1>1, <1>2, <1>3, <1>4, InputKept DEF GoInv

\* JsRead keeps the invariant.
LEMMA JsReadStep ==
  ASSUME IInv, JsReadGlobals
  PROVE  JsInv'
<1>1. /\ js \in Service /\ js.next = 1 /\ js.missing = {} /\ js.keys = {}
      /\ 1 \in 1..(Len(networks) + 1) /\ UNCHANGED <<networks, port, env, motes>>
  BY DEF IInv, InputInv, JsInv, JsReadGlobals
<1>2. CASE ~JsPortIsGood \/ Listed(networks) = {} \/ motes = 0
  <2>1. PICK why \in {"bad port", "no networks", "bad gas"} :
          /\ js' = [js EXCEPT !.status = why]
          /\ why = "no networks" => Listed(networks) = {}
          /\ why = "bad gas" => motes = 0
          /\ why = "bad port" => ~JsPortIsGood
    BY <1>2 DEF JsReadGlobals, JsStops
  <2>2. js' \in Service /\ js'.next = 1 /\ js'.status = why
    BY <1>1, <2>1 DEF Service, Status, Stopped
  <2> QED
    BY <1>1, <2>1, <2>2, InputKept DEF JsInv
<1>3. CASE JsPortIsGood /\ Listed(networks) # {} /\ motes # 0
  <2>1. js' = [js EXCEPT !.status = "resolving", !.gas = motes]
    BY <1>3 DEF JsReadGlobals
  <2>2. /\ js' \in Service /\ js'.next = 1 /\ js'.status = "resolving"
        /\ js'.missing = {} /\ js'.keys = {}
    BY <1>1, <2>1 DEF Service, Status, IInv, InputInv
  <2>3. Found(js, js.next)'
    BY <1>1, <2>2, WalkStarts, InputKept DEF Found
  <2> QED
    BY <1>1, <1>3, <2>2, <2>3, InputKept DEF JsInv
<1> QED
  BY <1>2, <1>3

\* JsResolve keeps the invariant.
LEMMA JsResolveStep ==
  ASSUME IInv, JsResolve
  PROVE  JsInv'
<1> DEFINE x == networks[js.next]
<1>1. /\ js \in Service /\ js.status = "resolving"
      /\ js.next \in 1..Len(networks) /\ {js.next, js.next + 1} \subseteq 1..(Len(networks) + 1)
      /\ Found(js, js.next) /\ Listed(networks) # {}
      /\ UNCHANGED <<networks, port, env, motes>>
  <2>1. Len(networks) \in Nat
    BY DEF IInv, InputInv
  <2>2. js.status = "resolving" /\ js.next <= Len(networks) /\ UNCHANGED <<networks, port, env, motes>>
    BY DEF JsResolve
  <2>3. /\ js.next \in 1..(Len(networks) + 1) /\ js \in Service
        /\ Found(js, js.next) /\ Listed(networks) # {}
    BY <2>2 DEF IInv, JsInv
  <2> QED
    BY <2>1, <2>2, <2>3
<1>2. x # Blank => x \in Networks /\ x \in Listed(networks)
  BY <1>1, EntryIsNetwork DEF IInv
<1>3. \/ x = Blank /\ js' = [js EXCEPT !.next = @ + 1]
      \/ /\ x # Blank /\ Incomplete(x)
         /\ js' = [js EXCEPT !.next = @ + 1, !.missing = @ \cup {x}]
      \/ /\ x # Blank /\ ~Incomplete(x)
         /\ js' = [js EXCEPT !.next = @ + 1, !.keys = @ \cup {x}]
      \/ /\ x # Blank /\ ~JsKnowsAlgorithm(x)
         /\ js' = [js EXCEPT !.status = "bad key"]
  BY <1>1 DEF JsResolve, Service
<1>4. CASE x # Blank /\ ~JsKnowsAlgorithm(x) /\ js' = [js EXCEPT !.status = "bad key"]
  <2>1. js' \in Service /\ js'.next = js.next /\ js'.status = "bad key"
    BY <1>1, <1>4 DEF Service, Status, Stopped
  <2>2. HasUnusableKey
    BY <1>2, <1>4 DEF HasUnusableKey
  <2>3. HasUnusableKey'
    BY <1>1, <2>2, InputKept, Zenon
  <2> QED
    BY <1>1, <2>1, <2>3, InputKept DEF JsInv
<1>5. CASE ~(x # Blank /\ ~JsKnowsAlgorithm(x) /\ js' = [js EXCEPT !.status = "bad key"])
  <2>1. /\ js' \in Service /\ js'.status = "resolving" /\ js'.next = js.next + 1
        /\ js'.missing = js.missing \cup
             (IF x # Blank /\ Incomplete(x) THEN {x} ELSE {})
        /\ js'.keys = js.keys \cup
             (IF x # Blank /\ ~Incomplete(x) THEN {x} ELSE {})
    <3> DEFINE i == Incomplete(x)
    <3> HIDE DEF x, i
    <3>1. js.next + 1 \in Nat
      BY <1>1
    <3>2. CASE x = Blank /\ js' = [js EXCEPT !.next = @ + 1]
      BY <1>1, <3>1, <3>2 DEF Service
    <3>3. CASE x # Blank /\ i /\ js' = [js EXCEPT !.next = @ + 1, !.missing = @ \cup {x}]
      BY <1>1, <1>2, <3>1, <3>3 DEF Service, i
    <3>4. CASE x # Blank /\ ~i /\ js' = [js EXCEPT !.next = @ + 1, !.keys = @ \cup {x}]
      BY <1>1, <1>2, <3>1, <3>4 DEF Service, i
    <3> QED
      BY <1>3, <1>5, <3>2, <3>3, <3>4 DEF i
  <2>2. Found(js', js.next + 1)
    BY <1>1, <2>1, FoundGoesOn DEF IInv
  <2>3. Found(js, js.next)'
    BY <1>1, <2>1, <2>2, InputKept DEF Found
  <2> QED
    BY <1>1, <2>1, <2>3, InputKept DEF JsInv
<1> QED
  BY <1>4, <1>5

\* JsResolved keeps the invariant.
LEMMA JsResolvedStep ==
  ASSUME IInv, JsResolved
  PROVE  JsInv'
<1>1. /\ js \in Service /\ js.status = "resolving" /\ Found(js, Len(networks) + 1)
      /\ Listed(networks) # {} /\ 1 \in 1..(Len(networks) + 1)
      /\ js.next \in 1..(Len(networks) + 1) /\ UNCHANGED <<networks, port, env, motes>>
  <2>1. Len(networks) \in Nat
    BY DEF IInv, InputInv
  <2>2. js.status = "resolving" /\ js.next > Len(networks) /\ UNCHANGED <<networks, port, env, motes>>
    BY DEF JsResolved
  <2>3. /\ js.next \in 1..(Len(networks) + 1) /\ js \in Service
        /\ Found(js, js.next) /\ Listed(networks) # {}
    BY <2>2 DEF IInv, JsInv
  <2>4. js.next = Len(networks) + 1
    BY <2>1, <2>2, <2>3
  <2> QED
    BY <2>1, <2>2, <2>3, <2>4
<1>2. /\ js' \in Service /\ js'.missing = js.missing /\ js'.keys = js.keys
      /\ \/ js'.status = "incomplete" /\ js'.next = js.next /\ js.missing # {}
         \/ js'.status = "registering" /\ js'.next = 1 /\ js.missing = {}
  BY <1>1 DEF JsResolved, Service, Status, Stopped
<1>3. Found(js, Len(networks) + 1)'
  BY <1>1, <1>2, InputKept DEF Found
<1>4. Walked(1)' = {}
  BY WalkStarts, <1>1, InputKept
<1> QED
  BY <1>1, <1>2, <1>3, <1>4, InputKept DEF JsInv

\* JsRegister keeps the invariant.
LEMMA JsRegisterStep ==
  ASSUME IInv, JsRegister
  PROVE  JsInv'
<1> DEFINE x == networks[js.next]
<1>1. /\ js \in Service /\ js.status = "registering"
      /\ js.next \in 1..Len(networks) /\ {js.next, js.next + 1} \subseteq 1..(Len(networks) + 1)
      /\ Found(js, Len(networks) + 1) /\ Listed(networks) # {} /\ js.missing = {}
      /\ \A network \in Walked(js.next) : Of(network).pem = "good"
      /\ UNCHANGED <<networks, port, env, motes>>
  <2>1. Len(networks) \in Nat
    BY DEF IInv, InputInv
  <2>2. js.status = "registering" /\ js.next <= Len(networks) /\ UNCHANGED <<networks, port, env, motes>>
    BY DEF JsRegister
  <2>3. /\ js.next \in 1..(Len(networks) + 1) /\ js \in Service /\ js.missing = {}
        /\ Found(js, Len(networks) + 1) /\ Listed(networks) # {}
        /\ \A network \in Walked(js.next) : Of(network).pem = "good"
    BY <2>2 DEF IInv, JsInv
  <2> QED
    BY <2>1, <2>2, <2>3
<1>2. x # Blank => x \in Listed(networks) /\ x \in js.keys
  BY <1>1, EntryIsNetwork, WalkEnds DEF IInv, Found
<1>3. CASE x = Blank \/ Of(x).pem = "good"
  <2>1. js' = [js EXCEPT !.next = @ + 1]
    BY <1>2, <1>3 DEF JsRegister
  <2>2. /\ js' \in Service /\ js'.missing = {} /\ js'.keys = js.keys
        /\ js'.next = js.next + 1 /\ js'.status = "registering"
    BY <1>1, <2>1 DEF Service
  <2>3. Found(js, Len(networks) + 1)'
    BY <1>1, <2>2, InputKept DEF Found
  <2>4. \A network \in Walked(js.next + 1) : Of(network).pem = "good"
    BY <1>1, <1>3, WalkGoesOn DEF IInv
  <2> QED
    BY <1>1, <2>2, <2>3, <2>4, InputKept DEF JsInv
<1>4. CASE x # Blank /\ Of(x).pem # "good"
  <2>1. js' = [js EXCEPT !.status = "bad key"]
    BY <1>4 DEF JsRegister
  <2>2. js' \in Service /\ js'.next = js.next /\ js'.status = "bad key"
    BY <1>1, <2>1 DEF Service, Status, Stopped
  <2>3. HasUnusableKey
    BY <1>2, <1>4 DEF HasUnusableKey
  <2>4. HasUnusableKey'
    BY <1>1, <2>3, InputKept, Zenon
  <2> QED
    BY <1>1, <2>2, <2>4, InputKept DEF JsInv
<1> QED
  BY <1>3, <1>4

\* JsListen keeps the invariant.
LEMMA JsListenStep ==
  ASSUME IInv, JsListen
  PROVE  JsInv'
<1>1. /\ js \in Service /\ js.next = Len(networks) + 1 /\ js.status = "registering"
      /\ UNCHANGED <<networks, port, env, motes>>
  <2>1. Len(networks) \in Nat
    BY DEF IInv, InputInv
  <2>2. js.status = "registering" /\ js.next > Len(networks) /\ UNCHANGED <<networks, port, env, motes>>
    BY DEF JsListen
  <2>3. js.next \in 1..(Len(networks) + 1) /\ js \in Service
    BY DEF IInv, JsInv
  <2> QED
    BY <2>1, <2>2, <2>3
<1>2. /\ js' \in Service /\ js'.status = "serving" /\ js'.next = js.next
      /\ js'.missing = js.missing /\ js'.keys = js.keys
  BY <1>1 DEF JsListen, Service, Status
<1>3. Found(js, Len(networks) + 1) /\ js.missing = {} /\ Listed(networks) # {}
      /\ \A network \in Walked(js.next) : Of(network).pem = "good"
  BY <1>1 DEF IInv, JsInv
<1>4. Found(js, Len(networks) + 1)'
  BY <1>1, <1>2, <1>3, InputKept DEF Found
<1> QED
  BY <1>1, <1>2, <1>3, <1>4, InputKept DEF JsInv, IInv

\* Every step keeps the invariant.
LEMMA NextStep ==
  ASSUME IInv, [Next]_vars
  PROVE  IInv'
<1>1. InputInv' /\ UNCHANGED <<networks, port, env, motes>>
  BY DEF IInv, InputInv, Next, vars, GoParse, GoResolve, GoMain, JsReadGlobals, JsResolve,
         JsResolved, JsRegister, JsListen
<1>2. ASSUME UNCHANGED js
      PROVE  JsInv'
  <2>1. /\ Found(js, js.next) => Found(js, js.next)'
        /\ Found(js, Len(networks) + 1) => Found(js, Len(networks) + 1)'
    BY <1>1, <1>2, InputKept DEF Found
  <2>2. (\A network \in Walked(js.next) : Of(network).pem = "good")
        => (\A network \in Walked(js.next)' : Of(network)'.pem = "good")
    BY <1>1, <1>2, InputKept
  <2> QED
    BY <1>1, <1>2, <2>1, <2>2, InputKept DEF IInv, JsInv
<1>3. ASSUME UNCHANGED go
      PROVE  GoInv'
  <2>1. Found(go, go.next)
    BY DEF IInv, GoInv
  <2>2. Found(go, go.next)'
    BY <1>1, <1>3, <2>1, InputKept DEF Found
  <2> QED
    BY <1>1, <1>3, <2>2, InputKept DEF IInv, GoInv
<1>4. GoInv'
  <2>1. CASE GoParse \/ GoResolve \/ GoMain
    BY <2>1, GoParseStep, GoResolveStep, GoMainStep
  <2>2. CASE ~(GoParse \/ GoResolve \/ GoMain)
    BY <1>3, <2>2 DEF Next, vars, JsReadGlobals, JsResolve, JsResolved, JsRegister, JsListen
  <2> QED
    BY <2>1, <2>2
<1>5. JsInv'
  <2>1. CASE GoParse \/ GoResolve \/ GoMain \/ UNCHANGED vars
    BY <1>2, <2>1 DEF GoParse, GoResolve, GoMain, vars
  <2>2. CASE ~(GoParse \/ GoResolve \/ GoMain \/ UNCHANGED vars)
    BY <2>2, JsReadStep, JsResolveStep, JsResolvedStep, JsRegisterStep, JsListenStep DEF Next
  <2> QED
    BY <2>1, <2>2
<1> QED
  BY <1>1, <1>4, <1>5 DEF IInv

-----------------------------------------------------------------------------
(* Starting: what follows from it.                                         *)

\* How far the walk is says what has been found, in every reachable state.
THEOREM Invariance == Spec => []IInv
<1>1. Init => IInv
  BY InitIInv
<1>2. IInv /\ [Next]_vars => IInv'
  BY NextStep
<1> QED
  BY <1>1, <1>2, PTL DEF Spec

\* A service serves every network it was configured with, or none.
THEOREM AllOrNothing == Spec => []ServesAllOrNothing
<1>1. ASSUME IInv, go.status = "serving"
      PROVE  /\ go.keys = Listed(networks) /\ Listed(networks) # {}
             /\ \A network \in go.keys : ~Incomplete(network) /\ Of(network).pem = "good"
  <2>1. /\ go.missing = {network \in Listed(networks) : Incomplete(network)}
        /\ go.keys = {network \in Listed(networks) : ~Incomplete(network)}
        /\ go.missing = {} /\ Listed(networks) # {}
        /\ \A network \in go.keys : GoKeyLoads(network)
    BY <1>1, WalkEnds DEF IInv, GoInv, Found
  <2> QED
    BY <2>1 DEF GoKeyLoads
<1>2. ASSUME IInv, js.status = "serving"
      PROVE  /\ js.keys = Listed(networks) /\ Listed(networks) # {}
             /\ \A network \in js.keys : ~Incomplete(network) /\ Of(network).pem = "good"
  <2>1. /\ js.missing = {network \in Listed(networks) : Incomplete(network)}
        /\ js.keys = {network \in Listed(networks) : ~Incomplete(network)}
        /\ js.missing = {} /\ Listed(networks) # {}
        /\ \A network \in Listed(networks) : Of(network).pem = "good"
    BY <1>2, WalkEnds DEF IInv, JsInv, Found
  <2> QED
    BY <2>1
<1>3. IInv => ServesAllOrNothing
  BY <1>1, <1>2 DEF ServesAllOrNothing
<1> QED
  BY <1>3, Invariance, PTL

\* What starts the Go service starts the TypeScript one: it cannot stop for a reason
\* that the Go service would not have stopped for.
THEOREM GoStartsThenJsDoes == Spec => []JsStartsWhereGoDoes
<1>1. ASSUME IInv, go.status = "serving", motes > 0, port.n # 0
      PROVE  /\ js.status \notin Stopped
             /\ js.status = "serving" => js.keys = go.keys
  <2>1. /\ go.missing = {network \in Listed(networks) : Incomplete(network)}
        /\ go.keys = {network \in Listed(networks) : ~Incomplete(network)}
        /\ go.missing = {} /\ Listed(networks) # {}
        /\ \A network \in go.keys : GoKeyLoads(network)
    BY <1>1, WalkEnds DEF IInv, GoInv, Found
  <2>2. \A network \in Listed(networks) :
          ~Incomplete(network) /\ Of(network).pem = "good" /\ JsKnowsAlgorithm(network)
    BY <2>1 DEF GoKeyLoads, JsKnowsAlgorithm
  <2>3. js.status \in {"serving", "incomplete"} =>
          /\ js.missing = {network \in Listed(networks) : Incomplete(network)}
          /\ js.keys = {network \in Listed(networks) : ~Incomplete(network)}
    BY <1>1, WalkEnds DEF IInv, JsInv, Found
  <2>4. js.status # "incomplete" /\ js.status # "bad key"
    <3>1. js.status = "incomplete" => js.missing # {}
      BY <1>1 DEF IInv, JsInv
    <3>2. js.status = "bad key" => HasUnusableKey
      BY <1>1 DEF IInv, JsInv
    <3> QED
      BY <2>2, <2>3, <3>1, <3>2 DEF HasUnusableKey
  <2>5. /\ js.status = "no networks" => Listed(networks) = {}
        /\ js.status = "bad gas" => motes = 0
        /\ js.status # "no key"
    BY <1>1 DEF IInv, JsInv
  <2>6. motes # 0
    BY <1>1 DEF IInv, InputInv
  <2>8. js.status # "bad port"
    <3>1. port.form = "digits" /\ port.n \in 0..MaxPort
      BY <1>1 DEF IInv, GoInv, GoListensAt
    <3>2. port.n \in 1..MaxPort
      BY <1>1, <3>1
    <3>3. js.status = "bad port" => ~JsPortIsGood
      BY <1>1 DEF IInv, JsInv
    <3> QED
      BY <3>1, <3>2, <3>3 DEF JsPortIsGood
  <2>7. js.status \notin Stopped
    BY <2>1, <2>4, <2>5, <2>6, <2>8 DEF Stopped
  <2> QED
    BY <2>1, <2>3, <2>7
<1>2. IInv => JsStartsWhereGoDoes
  BY <1>1 DEF JsStartsWhereGoDoes
<1> QED
  BY <1>2, Invariance, PTL

\* main's own look for a missing key is never needed.
THEOREM NoKeyIsMissing == Spec => []KeysAreResolvedBefore
<1>1. IInv => KeysAreResolvedBefore
  BY DEF IInv, GoInv, KeysAreResolvedBefore
<1> QED
  BY <1>1, Invariance, PTL

\* A service that gives up over missing variables has named every network that misses
\* one.
THEOREM ReportNamesAll == Spec => []ReportIsComplete
<1>1. ASSUME IInv
      PROVE  /\ go.status = "incomplete" =>
                  go.missing = {network \in Listed(networks) : Incomplete(network)}
             /\ js.status = "incomplete" =>
                  js.missing = {network \in Listed(networks) : Incomplete(network)}
  BY <1>1, WalkEnds DEF IInv, GoInv, JsInv, Found
<1>2. IInv => ReportIsComplete
  BY <1>1 DEF ReportIsComplete
<1> QED
  BY <1>2, Invariance, PTL

-----------------------------------------------------------------------------
(* Two facilitators: the inductive invariant, which says as much as their  *)
(* promise needs and no more.                                              *)

GoDomains ==
  /\ DOMAIN goPc = GoCalls /\ DOMAIN goReq = GoCalls /\ DOMAIN goTx = GoCalls
  /\ DOMAIN goRpc = GoCalls /\ DOMAIN goResp = GoCalls

JsDomains ==
  /\ DOMAIN jsPc = JsCalls /\ DOMAIN jsReq = JsCalls /\ DOMAIN jsTx = JsCalls
  /\ DOMAIN jsRpc = JsCalls /\ DOMAIN jsResp = JsCalls

\* The transaction of a call is for the payment it was asked for.
GoCallInv(c) ==
  /\ goPc[c] # "idle" => goReq[c] \in Requests
  /\ goPc[c] \in {"idle", "verify", "build"} => goTx[c] = NoTx
  /\ goPc[c] \in {"put", "wait"} => goTx[c] # NoTx
  /\ goTx[c] = NoTx => goRpc[c] = "none"
  /\ goTx[c] # NoTx => Authorization(goTx[c]) = Go!AuthorizationOf(goReq[c])

\* The TypeScript settle does not look at the amount again before it builds.
JsCallInv(c) ==
  /\ jsPc[c] # "idle" => jsReq[c] \in Requests
  /\ jsPc[c] \in {"idle", "verify", "build"} => jsTx[c] = NoTx
  /\ jsPc[c] = "build" => Js!BigIntReads(jsReq[c].p.value)
  /\ jsPc[c] \in {"put", "wait", "poll"} => jsTx[c] # NoTx
  /\ jsTx[c] = NoTx => jsRpc[c] = "none"
  /\ jsTx[c] # NoTx => Authorization(jsTx[c]) = Js!AuthorizationOf(jsReq[c])

\* The node holds what some call of one or the other has built, and nothing else.
NodeInv ==
  /\ now \in 0..MaxTime
  /\ NoTx \notin accepted
  /\ \A t \in accepted :
       (\E c \in GoCalls : goTx[c] = t) \/ (\E c \in JsCalls : jsTx[c] = t)

PairInv ==
  /\ GoDomains /\ \A c \in GoCalls : GoCallInv(c)
  /\ JsDomains /\ \A c \in JsCalls : JsCallInv(c)
  /\ NodeInv

-----------------------------------------------------------------------------
(* Two facilitators: a step of one call.                                   *)

\* What a step of one call leaves of the others and does to the node.
GoTouches(c) ==
  /\ UNCHANGED <<jsVars, now>>
  /\ GoDomains' /\ GoCallInv(c)'
  /\ \A d \in GoCalls \ {c} :
       goPc'[d] = goPc[d] /\ goReq'[d] = goReq[d] /\ goTx'[d] = goTx[d] /\ goRpc'[d] = goRpc[d]
  /\ goTx[c] # NoTx => goTx'[c] = goTx[c]
  /\ \/ accepted' = accepted
     \/ accepted' = accepted \cup {goTx[c]} /\ goTx[c] # NoTx

JsTouches(c) ==
  /\ UNCHANGED <<goVars, now>>
  /\ JsDomains' /\ JsCallInv(c)'
  /\ \A d \in JsCalls \ {c} :
       jsPc'[d] = jsPc[d] /\ jsReq'[d] = jsReq[d] /\ jsTx'[d] = jsTx[d] /\ jsRpc'[d] = jsRpc[d]
  /\ jsTx[c] # NoTx => jsTx'[c] = jsTx[c]
  /\ \/ accepted' = accepted
     \/ accepted' = accepted \cup {jsTx[c]} /\ jsTx[c] # NoTx

\* So a step of one call keeps the invariant, if the call keeps its part of it.
LEMMA GoTouchesKeeps ==
  ASSUME PairInv, NEW c \in GoCalls, GoTouches(c)
  PROVE  PairInv'
<1>1. \A d \in GoCalls : GoCallInv(d)'
  <2> SUFFICES ASSUME NEW d \in GoCalls \ {c}
               PROVE  GoCallInv(d)'
    BY DEF GoTouches
  <2>1. GoCallInv(d)
    BY DEF PairInv
  <2> QED
    BY <2>1 DEF GoTouches, GoCallInv
<1>2. JsDomains' /\ \A d \in JsCalls : JsCallInv(d)'
  BY DEF PairInv, GoTouches, jsVars, JsDomains, JsCallInv
<1>3. NodeInv'
  <2>1. \A d \in GoCalls : goTx[d] # NoTx => goTx'[d] = goTx[d]
    BY DEF GoTouches
  <2>2. jsTx' = jsTx /\ now' = now
    BY DEF GoTouches, jsVars
  <2> QED
    BY <2>1, <2>2 DEF PairInv, NodeInv, GoTouches
<1> QED
  BY <1>1, <1>2, <1>3 DEF PairInv, GoTouches

\* The same of the TypeScript facilitator.
LEMMA JsTouchesKeeps ==
  ASSUME PairInv, NEW c \in JsCalls, JsTouches(c)
  PROVE  PairInv'
<1>1. \A d \in JsCalls : JsCallInv(d)'
  <2> SUFFICES ASSUME NEW d \in JsCalls \ {c}
               PROVE  JsCallInv(d)'
    BY DEF JsTouches
  <2>1. JsCallInv(d)
    BY DEF PairInv
  <2> QED
    BY <2>1 DEF JsTouches, JsCallInv
<1>2. GoDomains' /\ \A d \in GoCalls : GoCallInv(d)'
  BY DEF PairInv, JsTouches, goVars, GoDomains, GoCallInv
<1>3. NodeInv'
  <2>1. \A d \in JsCalls : jsTx[d] # NoTx => jsTx'[d] = jsTx[d]
    BY DEF JsTouches
  <2>2. goTx' = goTx /\ now' = now
    BY DEF JsTouches, goVars
  <2> QED
    BY <2>1, <2>2 DEF PairInv, NodeInv, JsTouches
<1> QED
  BY <1>1, <1>2, <1>3 DEF PairInv, JsTouches

\* The initial states satisfy the invariant.
LEMMA PairInitInv ==
  ASSUME PairInit
  PROVE  PairInv
  BY MaxTimeAssumption
     DEF PairInit, Go!Init, Js!Init, Go!ChainInit, Js!ChainInit, PairInv, GoDomains,
         JsDomains, GoCallInv, JsCallInv, NodeInv

\* What Settle builds is a transaction, for the payment of its request.
LEMMA GoBuildsTheAsked ==
  ASSUME NEW q \in Requests, Go!Accepts(Go!GoBuildChecks(q)), NEW ms \in Millis,
         now \in 0..MaxTime
  PROVE  LET t == Go!GoTxOf(q, [sec |-> now, ms |-> ms])
         IN  t # NoTx /\ Authorization(t) = Go!AuthorizationOf(q)
<1> DEFINE stamp == [sec |-> now, ms |-> ms]
<1>1. Go!Check(256, "build_deploy_failed", Go!IsDecimal(q.p.value)).ok
  BY DEF Go!Accepts, Go!GoBuildChecks
<1>2. Go!IsDecimal(q.p.value)
  BY <1>1 DEF Go!Check
<1>3. stamp \in Go!Stamp
  BY DEF Go!Stamp
<1> HIDE DEF stamp
<1>4. Go!GoTxOf(q, stamp) \in Go!Tx
  BY <1>2, <1>3 DEF Go!Tx
<1>5. Authorization(Go!GoTxOf(q, stamp)) = Go!AuthorizationOf(q)
  BY DEF Authorization, Go!GoTxOf, Go!AuthorizationOf
<1> QED
  BY <1>4, <1>5, NoTxIsNone DEF stamp

\* Nor does settle build anything else.
LEMMA JsBuildsTheAsked ==
  ASSUME NEW q \in Requests, Js!BigIntReads(q.p.value), NEW ms \in Millis,
         now \in 0..MaxTime
  PROVE  LET t == Js!JsTxOf(q, [sec |-> now, ms |-> ms])
         IN  t # NoTx /\ Authorization(t) = Js!AuthorizationOf(q)
<1> DEFINE stamp == [sec |-> now, ms |-> ms]
<1>1. stamp \in Js!Stamp
  BY DEF Js!Stamp
<1> HIDE DEF stamp
<1>2. Js!JsTxOf(q, stamp) \in Js!Tx
  BY <1>1 DEF Js!Tx
<1>3. Authorization(Js!JsTxOf(q, stamp)) = Js!AuthorizationOf(q)
  BY DEF Authorization, Js!JsTxOf, Js!AuthorizationOf
<1> QED
  BY <1>2, <1>3, NoTxIsNone DEF stamp

\* What the TypeScript verify accepts has an amount that can be read.
LEMMA JsVerifiedIsDecimal ==
  ASSUME NEW q, NEW t, Js!Accepts(Js!JsChecks(q, t))
  PROVE  Js!BigIntReads(q.p.value)
<1> DEFINE hashes == Js!Check(291, "failed_to_hash",
                               q.p.nonce \in ValidNonce /\ Js!BigIntReads(q.p.value))
<1>1. hashes \in Js!JsSignatureChecks(q.p, q.r)
  BY DEF Js!JsSignatureChecks
<1>2. \A k \in Js!JsSignatureChecks(q.p, q.r) : k.ok
  BY DEF Js!Accepts, Js!JsChecks
<1>3. hashes.ok
  BY <1>1, <1>2
<1> QED
  BY <1>3 DEF Js!Check

\* Every step of a Go handler touches its call, and keeps its part of the invariant.
LEMMA GoHandlerTouches ==
  ASSUME PairInv, NEW c \in GoCalls, Go!Handler(c), UNCHANGED jsVars
  PROVE  GoTouches(c)
<1> USE DEF GoTouches, GoDomains, GoCallInv, Go!chainVars
<1> GoDomains /\ GoCallInv(c) /\ NodeInv
  BY DEF PairInv
<1>1. CASE Go!Verify(c)
  BY <1>1 DEF Go!Verify, Go!Answer
<1>2. CASE Go!BuildAndSign(c)
  <2> HIDE DEF GoTouches
  <2>1. /\ UNCHANGED <<now, accepted, goReq, goRpc>> /\ goPc[c] = "build"
        /\ \/ /\ UNCHANGED goTx /\ goPc' = [goPc EXCEPT ![c] = "done"]
              /\ \E answer : goResp' = [goResp EXCEPT ![c] = answer]
           \/ /\ goPc' = [goPc EXCEPT ![c] = "put"] /\ UNCHANGED goResp
              /\ Go!Accepts(Go!GoBuildChecks(goReq[c]))
              /\ \E ms \in Millis :
                   goTx' = [goTx EXCEPT ![c] = Go!GoTxOf(goReq[c], [sec |-> now, ms |-> ms])]
    BY <1>2 DEF Go!BuildAndSign, Go!Answer
  <2>2. CASE UNCHANGED goTx /\ goPc' = [goPc EXCEPT ![c] = "done"]
    BY <2>1, <2>2 DEF GoTouches
  <2>3. CASE ~(UNCHANGED goTx /\ goPc' = [goPc EXCEPT ![c] = "done"])
    <3>1. PICK ms \in Millis :
            goTx' = [goTx EXCEPT ![c] = Go!GoTxOf(goReq[c], [sec |-> now, ms |-> ms])]
      BY <2>1, <2>3
    <3>2. /\ Go!Accepts(Go!GoBuildChecks(goReq[c])) /\ goReq[c] \in Requests
          /\ goPc' = [goPc EXCEPT ![c] = "put"] /\ UNCHANGED goResp
      BY <2>1, <2>3
    <3>3. goTx'[c] # NoTx /\ Authorization(goTx'[c]) = Go!AuthorizationOf(goReq[c])
      BY <3>1, <3>2, GoBuildsTheAsked DEF NodeInv
    <3>4. goReq'[c] = goReq[c] /\ goPc'[c] = "put"
      BY <2>1, <3>2
    <3>5. GoCallInv(c)'
      BY <3>2, <3>3, <3>4
    <3> QED
      BY <2>1, <3>1, <3>2, <3>5 DEF GoTouches
  <2> QED
    BY <2>2, <2>3
<1>3. CASE Go!SendPut(c)
  BY <1>3 DEF Go!SendPut
<1>4. CASE Go!PutReturns(c)
  BY <1>4 DEF Go!PutReturns
<1>5. CASE Go!PutFails(c)
  BY <1>5 DEF Go!PutFails, Go!Answer
<1>6. CASE Go!PollFindsSuccess(c) \/ Go!PollFindsError(c)
  BY <1>6 DEF Go!PollFindsSuccess, Go!PollFindsError, Go!Answer
<1>7. CASE Go!ContextEnds(c)
  BY <1>7 DEF Go!ContextEnds, Go!Answer
<1> QED
  BY <1>1, <1>2, <1>3, <1>4, <1>5, <1>6, <1>7 DEF Go!Handler

\* So every step of the Go side, of the node with its put too, touches one call.
LEMMA GoStepTouches ==
  ASSUME PairInv, GoStep
  PROVE  \E c \in GoCalls : GoTouches(c)
<1>1. ASSUME NEW c \in GoCalls, Go!Handler(c)
      PROVE  GoTouches(c)
  BY <1>1, GoHandlerTouches DEF GoStep
<1>2. ASSUME NEW c \in GoCalls, NEW q \in Requests, Go!HandleSettle(c, q)
      PROVE  GoTouches(c)
  BY <1>2 DEF PairInv, GoTouches, GoDomains, GoCallInv, GoStep, Go!HandleSettle, Go!chainVars
<1>3. ASSUME NEW c \in GoCalls, Go!Disconnect(c) \/ Go!NodeRefuses(c)
      PROVE  GoTouches(c)
  BY <1>3 DEF PairInv, GoTouches, GoDomains, GoCallInv, GoStep, Go!Disconnect,
              Go!NodeRefuses, Go!chainVars
<1>4. ASSUME NEW c \in GoCalls, Go!NodeTakesIn(c)
      PROVE  GoTouches(c)
  BY <1>4 DEF PairInv, GoTouches, GoDomains, GoCallInv, GoStep, Go!NodeTakesIn, Go!TakeIn
<1> QED
  BY <1>1, <1>2, <1>3, <1>4 DEF GoStep

\* Every step of a TypeScript handler touches its call.
LEMMA JsHandlerTouches ==
  ASSUME PairInv, NEW c \in JsCalls, Js!Handler(c), UNCHANGED goVars
  PROVE  JsTouches(c)
<1> USE DEF JsTouches, JsDomains, JsCallInv, Js!chainVars
<1> JsDomains /\ JsCallInv(c) /\ NodeInv
  BY DEF PairInv
<1>1. CASE Js!Verify(c)
  <2>1. Js!Accepts(Js!JsChecks(jsReq[c], now)) => Js!BigIntReads(jsReq[c].p.value)
    BY JsVerifiedIsDecimal
  <2> QED
    BY <1>1, <2>1 DEF Js!Verify, Js!Answer
<1>2. CASE Js!BuildSignAndSend(c)
  <2> HIDE DEF JsTouches
  <2>1. /\ UNCHANGED <<now, accepted, jsReq>> /\ jsPc[c] = "build"
        /\ \/ /\ UNCHANGED <<jsTx, jsRpc>> /\ jsPc' = [jsPc EXCEPT ![c] = "done"]
              /\ \E answer : jsResp' = [jsResp EXCEPT ![c] = answer]
           \/ /\ jsPc' = [jsPc EXCEPT ![c] = "put"] /\ UNCHANGED jsResp
              /\ jsRpc' = [jsRpc EXCEPT ![c] = "sent"]
              /\ \E ms \in Millis :
                   jsTx' = [jsTx EXCEPT ![c] = Js!JsTxOf(jsReq[c], [sec |-> now, ms |-> ms])]
    BY <1>2 DEF Js!BuildSignAndSend, Js!CatchSettleFailed, Js!Answer
  <2>2. CASE UNCHANGED <<jsTx, jsRpc>> /\ jsPc' = [jsPc EXCEPT ![c] = "done"]
    BY <2>1, <2>2 DEF JsTouches
  <2>3. CASE ~(UNCHANGED <<jsTx, jsRpc>> /\ jsPc' = [jsPc EXCEPT ![c] = "done"])
    <3>1. PICK ms \in Millis :
            jsTx' = [jsTx EXCEPT ![c] = Js!JsTxOf(jsReq[c], [sec |-> now, ms |-> ms])]
      BY <2>1, <2>3
    <3>2. /\ Js!BigIntReads(jsReq[c].p.value) /\ jsReq[c] \in Requests
          /\ jsPc' = [jsPc EXCEPT ![c] = "put"] /\ UNCHANGED jsResp
          /\ jsRpc' = [jsRpc EXCEPT ![c] = "sent"]
      BY <2>1, <2>3
    <3>3. jsTx'[c] # NoTx /\ Authorization(jsTx'[c]) = Js!AuthorizationOf(jsReq[c])
      BY <3>1, <3>2, JsBuildsTheAsked DEF NodeInv
    <3>4. jsReq'[c] = jsReq[c] /\ jsPc'[c] = "put"
      BY <2>1, <3>2
    <3>5. JsCallInv(c)'
      BY <3>2, <3>3, <3>4
    <3>6. jsTx[c] = NoTx
      BY <2>1
    <3> QED
      BY <2>1, <3>1, <3>2, <3>5, <3>6 DEF JsTouches
  <2> QED
    BY <2>2, <2>3
<1>3. CASE Js!StartPoll(c) \/ Js!PollFindsNothing(c)
  BY <1>3 DEF Js!StartPoll, Js!PollFindsNothing
<1>4. CASE Js!PutReturns(c)
  BY <1>4 DEF Js!PutReturns
<1>5. CASE Js!PutThrows(c) \/ Js!WaitTimesOut(c)
  BY <1>5 DEF Js!PutThrows, Js!WaitTimesOut, Js!CatchSettleFailed, Js!Answer
<1>6. CASE Js!PollFindsError(c) \/ Js!PollThrows(c)
  BY <1>6 DEF Js!PollFindsError, Js!PollThrows, Js!CatchSettleFailed, Js!Answer
<1>7. CASE Js!PollFindsSuccess(c)
  BY <1>7 DEF Js!PollFindsSuccess, Js!Answer
<1> QED
  BY <1>1, <1>2, <1>3, <1>4, <1>5, <1>6, <1>7 DEF Js!Handler, Js!RpcAnswers

\* So every step of the TypeScript side touches one call.
LEMMA JsStepTouches ==
  ASSUME PairInv, JsStep
  PROVE  \E c \in JsCalls : JsTouches(c)
<1>1. ASSUME NEW c \in JsCalls, Js!Handler(c)
      PROVE  JsTouches(c)
  BY <1>1, JsHandlerTouches DEF JsStep
<1>2. ASSUME NEW c \in JsCalls, NEW q \in Requests, Js!PostSettle(c, q)
      PROVE  JsTouches(c)
  BY <1>2 DEF PairInv, JsTouches, JsDomains, JsCallInv, JsStep, Js!PostSettle, Js!chainVars
<1>3. ASSUME NEW c \in JsCalls, Js!NodeRefuses(c)
      PROVE  JsTouches(c)
  BY <1>3 DEF PairInv, JsTouches, JsDomains, JsCallInv, JsStep, Js!NodeRefuses, Js!chainVars
<1>4. ASSUME NEW c \in JsCalls, Js!NodeTakesIn(c)
      PROVE  JsTouches(c)
  BY <1>4 DEF PairInv, JsTouches, JsDomains, JsCallInv, JsStep, Js!NodeTakesIn, Js!TakeIn
<1> QED
  BY <1>1, <1>2, <1>3, <1>4 DEF JsStep

\* Time and executions touch no call.
LEMMA ChainStepKeeps ==
  ASSUME PairInv, ChainStep
  PROVE  PairInv'
<1>1. UNCHANGED <<goVars, jsVars, accepted>>
  BY DEF ChainStep, ExecuteWell, ExecuteBadly, Tick
<1>2. now' \in 0..MaxTime
  BY MaxTimeAssumption DEF PairInv, NodeInv, ChainStep, ExecuteWell, ExecuteBadly, Tick
<1> QED
  BY <1>1, <1>2 DEF PairInv, GoDomains, JsDomains, GoCallInv, JsCallInv, NodeInv, goVars, jsVars

\* Every step keeps the invariant.
LEMMA PairStepInv ==
  ASSUME PairInv, [PairNext]_pairVars
  PROVE  PairInv'
<1>1. CASE GoStep
  BY <1>1, GoStepTouches, GoTouchesKeeps
<1>2. CASE JsStep
  BY <1>2, JsStepTouches, JsTouchesKeeps
<1>3. CASE ChainStep
  BY <1>3, ChainStepKeeps
<1>4. CASE UNCHANGED pairVars
  BY <1>4 DEF PairInv, GoDomains, JsDomains, GoCallInv, JsCallInv, NodeInv, pairVars, goVars,
              jsVars, chainVars
<1> QED
  BY <1>1, <1>2, <1>3, <1>4 DEF PairNext, Finished

\* Every reachable state of the two together satisfies the invariant.
THEOREM PairInvariance == PairSafetySpec => []PairInv
  BY PairInitInv, PairStepInv, PTL DEF PairSafetySpec

-----------------------------------------------------------------------------
(* Two facilitators: every step is one that their promise allows.          *)

\* What the promise sees of a call depends on the facilitator that has it.
LEMMA SeenOfCalls ==
  /\ DOMAIN AskedBy = GoCalls \cup JsCalls /\ DOMAIN OutcomeOf = GoCalls \cup JsCalls
  /\ \A c \in GoCalls :
       /\ AskedBy[c] = IF goPc[c] = "idle" THEN {} ELSE {Go!AuthorizationOf(goReq[c])}
       /\ OutcomeOf[c] = Go!Outcome(c)
  /\ \A c \in JsCalls :
       /\ AskedBy[c] = IF jsPc[c] = "idle" THEN {} ELSE {Js!AuthorizationOf(jsReq[c])}
       /\ OutcomeOf[c] = Js!Outcome(c)
<1>1. \A c \in JsCalls : c \notin GoCalls
  BY CallsAssumption
<1> QED
  BY <1>1 DEF AskedBy, OutcomeOf, Go!Asked, Js!Asked

\* A step that leaves requests, answers and transfers alone, and no call arrive, is
\* invisible.
LEMMA PairInvisible ==
  ASSUME UNCHANGED <<goReq, goResp, jsReq, jsResp, succeeded>>,
         \A c \in GoCalls : goPc'[c] = "idle" <=> goPc[c] = "idle",
         \A c \in GoCalls : goPc'[c] = "done" <=> goPc[c] = "done",
         \A c \in JsCalls : jsPc'[c] = "idle" <=> jsPc[c] = "idle",
         \A c \in JsCalls : jsPc'[c] = "done" <=> jsPc[c] = "done"
  PROVE  UNCHANGED Promise!settlementVars
<1>1. PaidByEither' = PaidByEither
  BY DEF PaidByEither
<1>2. Go!Asked' = Go!Asked
  <2> DEFINE A(c) == IF goPc[c] = "idle" THEN {} ELSE {Go!AuthorizationOf(goReq[c])}
             B(c) == IF goPc'[c] = "idle" THEN {} ELSE {Go!AuthorizationOf(goReq'[c])}
  <2>1. \A c \in GoCalls : A(c) = B(c)
    OBVIOUS
  <2>2. Go!Asked = [c \in GoCalls |-> A(c)] /\ Go!Asked' = [c \in GoCalls |-> B(c)]
    BY DEF Go!Asked
  <2> HIDE DEF A, B
  <2> QED
    BY <2>1, <2>2
<1>3. Js!Asked' = Js!Asked
  <2> DEFINE A(c) == IF jsPc[c] = "idle" THEN {} ELSE {Js!AuthorizationOf(jsReq[c])}
             B(c) == IF jsPc'[c] = "idle" THEN {} ELSE {Js!AuthorizationOf(jsReq'[c])}
  <2>1. \A c \in JsCalls : A(c) = B(c)
    OBVIOUS
  <2>2. Js!Asked = [c \in JsCalls |-> A(c)] /\ Js!Asked' = [c \in JsCalls |-> B(c)]
    BY DEF Js!Asked
  <2> HIDE DEF A, B
  <2> QED
    BY <2>1, <2>2
<1>4. AskedBy' = AskedBy
  BY <1>2, <1>3 DEF AskedBy
<1>5. OutcomeOf' = OutcomeOf
  <2> DEFINE O(c) == IF c \in GoCalls THEN Go!Outcome(c) ELSE Js!Outcome(c)
             P(c) == IF c \in GoCalls THEN Go!Outcome(c)' ELSE Js!Outcome(c)'
  <2>1. \A c \in GoCalls \cup JsCalls : O(c) = P(c)
    BY DEF Go!Outcome, Js!Outcome
  <2>2. /\ OutcomeOf = [c \in GoCalls \cup JsCalls |-> O(c)]
        /\ OutcomeOf' = [c \in GoCalls \cup JsCalls |-> P(c)]
    BY DEF OutcomeOf
  <2> HIDE DEF O, P
  <2> QED
    BY <2>1, <2>2
<1> QED
  BY <1>1, <1>4, <1>5 DEF Promise!settlementVars

\* What changes of one call only, changes what is seen of that call only.
LEMMA GoChangesOne ==
  ASSUME NEW c \in GoCalls, UNCHANGED <<jsPc, jsReq, jsResp>>,
         \A d \in GoCalls \ {c} :
           goPc'[d] = goPc[d] /\ goReq'[d] = goReq[d] /\ goResp'[d] = goResp[d]
  PROVE  /\ AskedBy' = [AskedBy EXCEPT ![c] =
                          IF goPc'[c] = "idle" THEN {} ELSE {Go!AuthorizationOf(goReq'[c])}]
         /\ OutcomeOf' = [OutcomeOf EXCEPT ![c] = Go!Outcome(c)']
<1> DEFINE A(d) == IF d \in GoCalls
                   THEN IF goPc[d] = "idle" THEN {} ELSE {Go!AuthorizationOf(goReq[d])}
                   ELSE Js!Asked[d]
           B(d) == IF d \in GoCalls
                   THEN IF goPc'[d] = "idle" THEN {} ELSE {Go!AuthorizationOf(goReq'[d])}
                   ELSE Js!Asked[d]
           O(d) == IF d \in GoCalls THEN Go!Outcome(d) ELSE Js!Outcome(d)
           P(d) == IF d \in GoCalls THEN Go!Outcome(d)' ELSE Js!Outcome(d)
<1>1. Js!Asked' = Js!Asked /\ \A d : Js!Outcome(d)' = Js!Outcome(d)
  BY DEF Js!Asked, Js!Outcome
<1>2. /\ AskedBy = [d \in GoCalls \cup JsCalls |-> A(d)]
      /\ AskedBy' = [d \in GoCalls \cup JsCalls |-> B(d)]
  BY <1>1 DEF AskedBy, Go!Asked
<1>3. /\ OutcomeOf = [d \in GoCalls \cup JsCalls |-> O(d)]
      /\ OutcomeOf' = [d \in GoCalls \cup JsCalls |-> P(d)]
  BY <1>1 DEF OutcomeOf
<1>4. \A d \in (GoCalls \cup JsCalls) \ {c} : A(d) = B(d) /\ O(d) = P(d)
  BY DEF Go!Outcome
<1>5. /\ B(c) = IF goPc'[c] = "idle" THEN {} ELSE {Go!AuthorizationOf(goReq'[c])}
      /\ P(c) = Go!Outcome(c)'
  OBVIOUS
<1> HIDE DEF A, B, O, P
<1> QED
  BY <1>2, <1>3, <1>4, <1>5

\* The same for the calls of the TypeScript facilitator.
LEMMA JsChangesOne ==
  ASSUME NEW c \in JsCalls, UNCHANGED <<goPc, goReq, goResp>>,
         \A d \in JsCalls \ {c} :
           jsPc'[d] = jsPc[d] /\ jsReq'[d] = jsReq[d] /\ jsResp'[d] = jsResp[d]
  PROVE  /\ AskedBy' = [AskedBy EXCEPT ![c] =
                          IF jsPc'[c] = "idle" THEN {} ELSE {Js!AuthorizationOf(jsReq'[c])}]
         /\ OutcomeOf' = [OutcomeOf EXCEPT ![c] = Js!Outcome(c)']
<1> DEFINE A(d) == IF d \in JsCalls
                   THEN IF jsPc[d] = "idle" THEN {} ELSE {Js!AuthorizationOf(jsReq[d])}
                   ELSE Go!Asked[d]
           B(d) == IF d \in JsCalls
                   THEN IF jsPc'[d] = "idle" THEN {} ELSE {Js!AuthorizationOf(jsReq'[d])}
                   ELSE Go!Asked[d]
           O(d) == IF d \in JsCalls THEN Js!Outcome(d) ELSE Go!Outcome(d)
           P(d) == IF d \in JsCalls THEN Js!Outcome(d)' ELSE Go!Outcome(d)
<1>1. /\ Go!Asked' = Go!Asked /\ \A d : Go!Outcome(d)' = Go!Outcome(d)
      /\ \A d \in GoCalls \cup JsCalls : d \in GoCalls <=> d \notin JsCalls
  BY CallsAssumption DEF Go!Asked, Go!Outcome
<1>2. /\ AskedBy = [d \in GoCalls \cup JsCalls |-> A(d)]
      /\ AskedBy' = [d \in GoCalls \cup JsCalls |-> B(d)]
  BY <1>1 DEF AskedBy, Js!Asked
<1>3. /\ OutcomeOf = [d \in GoCalls \cup JsCalls |-> O(d)]
      /\ OutcomeOf' = [d \in GoCalls \cup JsCalls |-> P(d)]
  BY <1>1 DEF OutcomeOf
<1>4. \A d \in (GoCalls \cup JsCalls) \ {c} : A(d) = B(d) /\ O(d) = P(d)
  BY DEF Js!Outcome
<1>5. /\ B(c) = IF jsPc'[c] = "idle" THEN {} ELSE {Js!AuthorizationOf(jsReq'[c])}
      /\ P(c) = Js!Outcome(c)'
  OBVIOUS
<1> HIDE DEF A, B, O, P
<1> QED
  BY <1>2, <1>3, <1>4, <1>5

\* The arrival of a call at the Go facilitator asks for its payment.
LEMMA GoArrives ==
  ASSUME PairInv, NEW c \in GoCalls, NEW q \in Requests, Go!HandleSettle(c, q),
         UNCHANGED jsVars
  PROVE  Promise!Next
<1>1. OutcomeOf[c] = "none"
  BY SeenOfCalls DEF Go!HandleSettle, Go!Outcome
<1>2. /\ goPc' = [goPc EXCEPT ![c] = "verify"] /\ goReq' = [goReq EXCEPT ![c] = q]
      /\ UNCHANGED <<goResp, jsPc, jsReq, jsResp, succeeded>>
  BY DEF Go!HandleSettle, Go!chainVars, jsVars
<1>3. goPc'[c] = "verify" /\ goReq'[c] = q
  BY <1>2 DEF PairInv, GoDomains
<1>4. /\ AskedBy' = [AskedBy EXCEPT ![c] = {Go!AuthorizationOf(q)}]
      /\ OutcomeOf' = [OutcomeOf EXCEPT ![c] = "open"]
  BY <1>2, <1>3, GoChangesOne DEF Go!Outcome
<1>5. Promise!Ask(c, Go!AuthorizationOf(q))
  BY <1>1, <1>2, <1>4 DEF Promise!Ask, PaidByEither
<1> QED
  BY <1>5 DEF Promise!Next

\* The same for the TypeScript facilitator, which asks for the same authorization.
LEMMA JsArrives ==
  ASSUME PairInv, NEW c \in JsCalls, NEW q \in Requests, Js!PostSettle(c, q),
         UNCHANGED goVars
  PROVE  Promise!Next
<1>1. OutcomeOf[c] = "none"
  BY SeenOfCalls DEF Js!PostSettle, Js!Outcome
<1>2. /\ jsPc' = [jsPc EXCEPT ![c] = "verify"] /\ jsReq' = [jsReq EXCEPT ![c] = q]
      /\ UNCHANGED <<jsResp, goPc, goReq, goResp, succeeded>>
  BY DEF Js!PostSettle, Js!chainVars, goVars
<1>3. jsPc'[c] = "verify" /\ jsReq'[c] = q
  BY <1>2 DEF PairInv, JsDomains
<1>4. /\ AskedBy' = [AskedBy EXCEPT ![c] = {Js!AuthorizationOf(q)}]
      /\ OutcomeOf' = [OutcomeOf EXCEPT ![c] = "open"]
  BY <1>2, <1>3, JsChangesOne DEF Js!Outcome
<1>5. Promise!Ask(c, Js!AuthorizationOf(q))
  BY <1>1, <1>2, <1>4 DEF Promise!Ask, PaidByEither
<1>6. Js!AuthorizationOf(q) = Go!AuthorizationOf(q)
  BY DEF Js!AuthorizationOf, Go!AuthorizationOf
<1> QED
  BY <1>5, <1>6 DEF Promise!Next

\* An answer of the Go facilitator is a success after the transfer, or a failure.
LEMMA GoAnswers ==
  ASSUME PairInv, NEW c \in GoCalls, goPc[c] \notin {"idle", "done"},
         NEW ok \in BOOLEAN, NEW reason, NEW named,
         ok => goTx[c] \in succeeded /\ goTx[c] # NoTx,
         Go!Answer(c, ok, reason, named), UNCHANGED <<jsVars, goReq, succeeded>>
  PROVE  Promise!Next
<1>1. OutcomeOf[c] = "open" /\ AskedBy[c] = {Go!AuthorizationOf(goReq[c])}
  BY SeenOfCalls DEF Go!Outcome
<1>2. /\ goPc' = [goPc EXCEPT ![c] = "done"]
      /\ goResp' = [goResp EXCEPT ![c] = [success |-> ok, reason |-> reason, tx |-> named]]
      /\ UNCHANGED <<goReq, jsPc, jsReq, jsResp, succeeded>>
  BY DEF Go!Answer, jsVars
<1>3. goPc'[c] = "done" /\ goResp'[c].success = ok
  BY <1>2 DEF PairInv, GoDomains
<1>4. /\ AskedBy' = [AskedBy EXCEPT ![c] = {Go!AuthorizationOf(goReq[c])}]
      /\ OutcomeOf' = [OutcomeOf EXCEPT ![c] = IF ok THEN "success" ELSE "failure"]
  BY <1>2, <1>3, GoChangesOne DEF Go!Outcome
<1>5. AskedBy' = AskedBy /\ PaidByEither' = PaidByEither
  BY <1>1, <1>2, <1>4, SeenOfCalls DEF PaidByEither, AskedBy
<1>6. CASE ok
  <2>1. Authorization(goTx[c]) = Go!AuthorizationOf(goReq[c])
    BY <1>6 DEF PairInv, GoCallInv
  <2>2. AskedBy[c] \subseteq PaidByEither
    BY <1>1, <1>6, <2>1 DEF PaidByEither
  <2>3. Promise!Succeed(c)
    BY <1>1, <1>4, <1>5, <1>6, <2>2 DEF Promise!Succeed
  <2> QED
    BY <2>3 DEF Promise!Next
<1>7. CASE ~ok
  <2>1. Promise!Fail(c)
    BY <1>1, <1>4, <1>5, <1>7 DEF Promise!Fail
  <2> QED
    BY <2>1 DEF Promise!Next
<1> QED
  BY <1>6, <1>7

\* The same for an answer of the TypeScript facilitator.
LEMMA JsAnswers ==
  ASSUME PairInv, NEW c \in JsCalls, jsPc[c] \notin {"idle", "done"},
         NEW ok \in BOOLEAN, NEW reason, NEW named,
         ok => jsTx[c] \in succeeded /\ jsTx[c] # NoTx,
         Js!Answer(c, ok, reason, named), UNCHANGED <<goVars, jsReq, succeeded>>
  PROVE  Promise!Next
<1>1. OutcomeOf[c] = "open" /\ AskedBy[c] = {Js!AuthorizationOf(jsReq[c])}
  BY SeenOfCalls DEF Js!Outcome
<1>2. /\ jsPc' = [jsPc EXCEPT ![c] = "done"]
      /\ jsResp' = [jsResp EXCEPT ![c] = [success |-> ok, reason |-> reason, tx |-> named]]
      /\ UNCHANGED <<jsReq, goPc, goReq, goResp, succeeded>>
  BY DEF Js!Answer, goVars
<1>3. jsPc'[c] = "done" /\ jsResp'[c].success = ok
  BY <1>2 DEF PairInv, JsDomains
<1>4. /\ AskedBy' = [AskedBy EXCEPT ![c] = {Js!AuthorizationOf(jsReq[c])}]
      /\ OutcomeOf' = [OutcomeOf EXCEPT ![c] = IF ok THEN "success" ELSE "failure"]
  BY <1>2, <1>3, JsChangesOne DEF Js!Outcome
<1>5. AskedBy' = AskedBy /\ PaidByEither' = PaidByEither
  BY <1>1, <1>2, <1>4, SeenOfCalls DEF PaidByEither, AskedBy
<1>6. CASE ok
  <2>1. Authorization(jsTx[c]) = Js!AuthorizationOf(jsReq[c])
    BY <1>6 DEF PairInv, JsCallInv
  <2>2. AskedBy[c] \subseteq PaidByEither
    BY <1>1, <1>6, <2>1 DEF PaidByEither
  <2>3. Promise!Succeed(c)
    BY <1>1, <1>4, <1>5, <1>6, <2>2 DEF Promise!Succeed
  <2> QED
    BY <2>3 DEF Promise!Next
<1>7. CASE ~ok
  <2>1. Promise!Fail(c)
    BY <1>1, <1>4, <1>5, <1>7 DEF Promise!Fail
  <2> QED
    BY <2>1 DEF Promise!Next
<1> QED
  BY <1>6, <1>7

\* A good execution is the transfer of a payment that a call of one or the other has
\* asked for, and that neither has had transferred before.
LEMMA TransferRefines ==
  ASSUME PairInv, NEW t \in accepted, ExecuteWell(t), UNCHANGED <<goVars, jsVars>>
  PROVE  Promise!Next
<1> DEFINE a == Authorization(t)
<1>1. \E c \in GoCalls \cup JsCalls : a \in AskedBy[c]
  <2>1. t # NoTx
    BY DEF PairInv, NodeInv
  <2>2. CASE \E c \in GoCalls : goTx[c] = t
    BY <2>1, <2>2, SeenOfCalls DEF PairInv, GoCallInv
  <2>3. CASE \E c \in JsCalls : jsTx[c] = t
    BY <2>1, <2>3, SeenOfCalls DEF PairInv, JsCallInv
  <2> QED
    BY <2>2, <2>3 DEF PairInv, NodeInv
<1>2. \A c \in GoCalls \cup JsCalls :
        AskedBy[c] \subseteq {Go!AuthorizationOf(q) : q \in Requests}
  <2>1. ASSUME NEW c \in GoCalls
        PROVE  AskedBy[c] \subseteq {Go!AuthorizationOf(q) : q \in Requests}
    BY SeenOfCalls DEF PairInv, GoCallInv
  <2>2. ASSUME NEW c \in JsCalls
        PROVE  AskedBy[c] \subseteq {Go!AuthorizationOf(q) : q \in Requests}
    BY SeenOfCalls DEF PairInv, JsCallInv, Js!AuthorizationOf, Go!AuthorizationOf
  <2> QED
    BY <2>1, <2>2
<1>3. a \notin PaidByEither /\ PaidByEither' = PaidByEither \cup {a}
  BY DEF ExecuteWell, Transferable, Used, PaidByEither
<1>4. UNCHANGED <<AskedBy, OutcomeOf>>
  BY DEF goVars, jsVars, AskedBy, OutcomeOf, Go!Asked, Js!Asked, Go!Outcome, Js!Outcome
<1>5. Promise!Transfer(a)
  BY <1>1, <1>3, <1>4 DEF Promise!Transfer
<1> QED
  BY <1>1, <1>2, <1>5 DEF Promise!Next

\* Every step of the Go facilitator is one that the promise allows, or invisible to it.
LEMMA GoStepRefines ==
  ASSUME PairInv, GoStep
  PROVE  Promise!Next \/ UNCHANGED Promise!settlementVars
<1> DEFINE Allowed == Promise!Next \/ UNCHANGED Promise!settlementVars
<1> HIDE DEF Allowed
<1>1. ASSUME NEW c \in GoCalls, Go!Verify(c)
      PROVE  Allowed
  <2>1. CASE Go!Accepts(Go!GoChecks(goReq[c], now))
    <3>1. /\ goPc[c] = "verify" /\ goPc' = [goPc EXCEPT ![c] = "build"]
          /\ UNCHANGED <<goReq, goResp, succeeded, jsVars>>
      BY <1>1, <2>1 DEF GoStep, Go!Verify, Go!chainVars
    <3> QED
      BY <3>1, PairInvisible DEF Allowed, PairInv, GoDomains, jsVars
  <2>2. CASE ~Go!Accepts(Go!GoChecks(goReq[c], now))
    BY <1>1, <2>2, GoAnswers DEF Allowed, GoStep, Go!Verify, Go!chainVars
  <2> QED
    BY <2>1, <2>2
<1>2. ASSUME NEW c \in GoCalls, Go!BuildAndSign(c)
      PROVE  Allowed
  <2>1. /\ goPc[c] = "build" /\ UNCHANGED <<goReq, succeeded, jsVars>>
        /\ \/ goPc' = [goPc EXCEPT ![c] = "put"] /\ UNCHANGED goResp
           \/ \E reason : Go!Answer(c, FALSE, reason, NoTx)
    BY <1>2 DEF GoStep, Go!BuildAndSign, Go!chainVars
  <2>2. CASE goPc' = [goPc EXCEPT ![c] = "put"] /\ UNCHANGED goResp
    BY <2>1, <2>2, PairInvisible DEF Allowed, PairInv, GoDomains, jsVars
  <2>3. CASE \E reason : Go!Answer(c, FALSE, reason, NoTx)
    BY <2>1, <2>3, GoAnswers DEF Allowed
  <2> QED
    BY <2>1, <2>2, <2>3
<1>3. ASSUME NEW c \in GoCalls, Go!SendPut(c) \/ Go!PutReturns(c)
      PROVE  Allowed
  <2>1. /\ goPc[c] = "put" /\ UNCHANGED <<goReq, goResp, succeeded, jsVars>>
        /\ UNCHANGED goPc \/ goPc' = [goPc EXCEPT ![c] = "wait"]
    BY <1>3 DEF GoStep, Go!SendPut, Go!PutReturns, Go!chainVars
  <2> QED
    BY <2>1, PairInvisible DEF Allowed, PairInv, GoDomains, jsVars
<1>4. ASSUME NEW c \in GoCalls, Go!PutFails(c) \/ Go!PollFindsError(c) \/ Go!ContextEnds(c)
      PROVE  Allowed
  <2>1. /\ goPc[c] \in {"put", "wait"} /\ UNCHANGED <<goReq, succeeded, jsVars>>
        /\ \E reason : Go!Answer(c, FALSE, reason, goTx[c])
    BY <1>4 DEF GoStep, Go!PutFails, Go!PollFindsError, Go!ContextEnds, Go!chainVars
  <2> QED
    BY <2>1, GoAnswers DEF Allowed
<1>5. ASSUME NEW c \in GoCalls, Go!PollFindsSuccess(c)
      PROVE  Allowed
  <2>1. /\ goPc[c] = "wait" /\ UNCHANGED <<goReq, succeeded, jsVars>>
        /\ goTx[c] \in succeeded /\ Go!Answer(c, TRUE, "none", goTx[c])
    BY <1>5 DEF GoStep, Go!PollFindsSuccess, Go!chainVars
  <2>2. goTx[c] # NoTx
    BY <2>1 DEF PairInv, GoCallInv
  <2> QED
    BY <2>1, <2>2, GoAnswers DEF Allowed
<1>6. ASSUME NEW c \in GoCalls,
             Go!Disconnect(c) \/ Go!NodeTakesIn(c) \/ Go!NodeRefuses(c)
      PROVE  Allowed
  <2>1. UNCHANGED <<goPc, goReq, goResp, succeeded, jsVars>>
    BY <1>6 DEF GoStep, Go!Disconnect, Go!NodeTakesIn, Go!NodeRefuses, Go!TakeIn, Go!chainVars
  <2> QED
    BY <2>1, PairInvisible DEF Allowed, jsVars
<1>7. ASSUME NEW c \in GoCalls, NEW q \in Requests, Go!HandleSettle(c, q)
      PROVE  Allowed
  BY <1>7, GoArrives DEF Allowed, GoStep
<1>8. ASSUME NEW c \in GoCalls, Go!Handler(c)
      PROVE  Allowed
  BY <1>1, <1>2, <1>3, <1>4, <1>5, <1>8 DEF Go!Handler
<1>9. Allowed
  BY <1>6, <1>7, <1>8 DEF GoStep
<1> QED
  BY <1>9 DEF Allowed

\* So is every step of the TypeScript facilitator.
LEMMA JsStepRefines ==
  ASSUME PairInv, JsStep
  PROVE  Promise!Next \/ UNCHANGED Promise!settlementVars
<1> DEFINE Allowed == Promise!Next \/ UNCHANGED Promise!settlementVars
<1> HIDE DEF Allowed
<1>1. ASSUME NEW c \in JsCalls, Js!Verify(c)
      PROVE  Allowed
  <2>1. CASE Js!Accepts(Js!JsChecks(jsReq[c], now))
    <3>1. /\ jsPc[c] = "verify" /\ jsPc' = [jsPc EXCEPT ![c] = "build"]
          /\ UNCHANGED <<jsReq, jsResp, succeeded, goVars>>
      BY <1>1, <2>1 DEF JsStep, Js!Verify, Js!chainVars
    <3> QED
      BY <3>1, PairInvisible DEF Allowed, PairInv, JsDomains, goVars
  <2>2. CASE ~Js!Accepts(Js!JsChecks(jsReq[c], now))
    BY <1>1, <2>2, JsAnswers DEF Allowed, JsStep, Js!Verify, Js!chainVars
  <2> QED
    BY <2>1, <2>2
<1>2. ASSUME NEW c \in JsCalls, Js!BuildSignAndSend(c)
      PROVE  Allowed
  <2>1. /\ jsPc[c] = "build" /\ UNCHANGED <<jsReq, succeeded, goVars>>
        /\ \/ jsPc' = [jsPc EXCEPT ![c] = "put"] /\ UNCHANGED jsResp
           \/ Js!Answer(c, FALSE, "settle_failed", NoTx)
    BY <1>2 DEF JsStep, Js!BuildSignAndSend, Js!CatchSettleFailed, Js!chainVars
  <2>2. CASE jsPc' = [jsPc EXCEPT ![c] = "put"] /\ UNCHANGED jsResp
    BY <2>1, <2>2, PairInvisible DEF Allowed, PairInv, JsDomains, goVars
  <2>3. CASE Js!Answer(c, FALSE, "settle_failed", NoTx)
    BY <2>1, <2>3, JsAnswers DEF Allowed
  <2> QED
    BY <2>1, <2>2, <2>3
<1>3. ASSUME NEW c \in JsCalls,
             Js!PutReturns(c) \/ Js!StartPoll(c) \/ Js!PollFindsNothing(c)
      PROVE  Allowed
  <2>1. /\ jsPc[c] \in {"put", "wait", "poll"}
        /\ UNCHANGED <<jsReq, jsResp, succeeded, goVars>>
        /\ \E next \in {"wait", "poll"} : jsPc' = [jsPc EXCEPT ![c] = next]
    BY <1>3 DEF JsStep, Js!PutReturns, Js!StartPoll, Js!PollFindsNothing, Js!chainVars
  <2> QED
    BY <2>1, PairInvisible DEF Allowed, PairInv, JsDomains, goVars
<1>4. ASSUME NEW c \in JsCalls,
             \/ Js!PutThrows(c) \/ Js!WaitTimesOut(c)
             \/ Js!PollFindsError(c) \/ Js!PollThrows(c)
      PROVE  Allowed
  <2>1. /\ jsPc[c] \in {"put", "wait", "poll"} /\ UNCHANGED <<jsReq, succeeded, goVars>>
        /\ Js!Answer(c, FALSE, "settle_failed", NoTx)
    BY <1>4 DEF JsStep, Js!PutThrows, Js!WaitTimesOut, Js!PollFindsError, Js!PollThrows,
                Js!CatchSettleFailed, Js!chainVars
  <2> QED
    BY <2>1, JsAnswers DEF Allowed
<1>5. ASSUME NEW c \in JsCalls, Js!PollFindsSuccess(c)
      PROVE  Allowed
  <2>1. /\ jsPc[c] = "poll" /\ UNCHANGED <<jsReq, succeeded, goVars>>
        /\ jsTx[c] \in succeeded /\ Js!Answer(c, TRUE, "none", jsTx[c])
    BY <1>5 DEF JsStep, Js!PollFindsSuccess, Js!chainVars
  <2>2. jsTx[c] # NoTx
    BY <2>1 DEF PairInv, JsCallInv
  <2> QED
    BY <2>1, <2>2, JsAnswers DEF Allowed
<1>6. ASSUME NEW c \in JsCalls, Js!NodeTakesIn(c) \/ Js!NodeRefuses(c)
      PROVE  Allowed
  <2>1. UNCHANGED <<jsPc, jsReq, jsResp, succeeded, goVars>>
    BY <1>6 DEF JsStep, Js!NodeTakesIn, Js!NodeRefuses, Js!TakeIn, Js!chainVars
  <2> QED
    BY <2>1, PairInvisible DEF Allowed, goVars
<1>7. ASSUME NEW c \in JsCalls, NEW q \in Requests, Js!PostSettle(c, q)
      PROVE  Allowed
  BY <1>7, JsArrives DEF Allowed, JsStep
<1>8. ASSUME NEW c \in JsCalls, Js!Handler(c)
      PROVE  Allowed
  BY <1>1, <1>2, <1>3, <1>4, <1>5, <1>8 DEF Js!Handler, Js!RpcAnswers
<1>9. Allowed
  BY <1>6, <1>7, <1>8 DEF JsStep
<1> QED
  BY <1>9 DEF Allowed

\* And so is every step of the two together.
LEMMA PairStepRefines ==
  ASSUME PairInv, [PairNext]_pairVars
  PROVE  [Promise!Next]_(Promise!settlementVars)
<1>1. CASE GoStep
  BY <1>1, GoStepRefines
<1>2. CASE JsStep
  BY <1>2, JsStepRefines
<1>3. CASE ChainStep
  <2>1. CASE \E t \in accepted : ExecuteWell(t)
    BY <1>3, <2>1, TransferRefines DEF ChainStep
  <2>2. CASE ~\E t \in accepted : ExecuteWell(t)
    <3>1. UNCHANGED <<goVars, jsVars, succeeded>>
      BY <1>3, <2>2 DEF ChainStep, ExecuteBadly, Tick
    <3> QED
      BY <3>1, PairInvisible DEF goVars, jsVars
  <2> QED
    BY <2>1, <2>2
<1>4. CASE UNCHANGED pairVars
  BY <1>4, PairInvisible DEF pairVars, goVars, jsVars, chainVars
<1> QED
  BY <1>1, <1>2, <1>3, <1>4 DEF PairNext, Finished

\* The two together start as their promise does.
LEMMA PairInitRefines ==
  ASSUME PairInit
  PROVE  Promise!Init
<1>1. /\ \A c \in GoCalls : goPc[c] = "idle"
      /\ \A c \in JsCalls : jsPc[c] = "idle"
      /\ succeeded = {}
  BY DEF PairInit, Go!Init, Js!Init, Go!ChainInit
<1>2. PaidByEither = {}
  BY <1>1 DEF PaidByEither
<1>3. \A c \in GoCalls \cup JsCalls : AskedBy[c] = {} /\ OutcomeOf[c] = "none"
  BY <1>1, SeenOfCalls DEF Go!Outcome, Js!Outcome
<1>4. /\ AskedBy = [c \in GoCalls \cup JsCalls |-> {}]
      /\ OutcomeOf = [c \in GoCalls \cup JsCalls |-> "none"]
  BY <1>3 DEF AskedBy, OutcomeOf
<1> QED
  BY <1>2, <1>4 DEF Promise!Init

\* A Go and a TypeScript facilitator that serve the same payments keep one promise, for
\* any number of calls of each: an authorization given to both transfers once.
THEOREM PairRefinement == PairSafetySpec => Promise!SafetySpec
  BY PairInitRefines, PairStepRefines, PairInvariance, PTL
     DEF PairSafetySpec, Promise!SafetySpec
=============================================================================
