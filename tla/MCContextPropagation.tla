------------------------ MODULE MCContextPropagation ------------------------
EXTENDS ContextPropagation

CONSTANTS v1, v2, rootC, overlayC

MCData == {v1, v2}

\* HostRoot 0 > Provider 1 > Class 2 > <svg> 3 > Pure 4, which renders
\* Consumer 5, Provider 6 > Profiler 7 > ForwardRef 8 > Consumer 9, and
\* Portal 10 > <svg> 11 > Mode 12 > (<foreignObject> 13 > <div> 16,
\* Consumer 14, text 15).  Provider 1 takes its value from root.render();
\* Provider 6 from the class state, passed down through 3 and 4.
MCTag ==
  0 :> "HostRoot" @@ 1 :> "ContextProvider" @@ 2 :> "ClassComponent" @@
  3 :> "HostComponent" @@ 4 :> "PureComponent" @@ 5 :> "ContextConsumer" @@
  6 :> "ContextProvider" @@ 7 :> "Profiler" @@ 8 :> "ForwardRef" @@
  9 :> "ContextConsumer" @@ 10 :> "HostPortal" @@ 11 :> "HostComponent" @@
  12 :> "Mode" @@ 13 :> "HostComponent" @@ 14 :> "ContextConsumer" @@
  15 :> "HostText" @@ 16 :> "HostComponent"

MCChildren ==
  0 :> <<1>> @@ 1 :> <<2>> @@ 2 :> <<3>> @@ 3 :> <<4>> @@
  4 :> <<5, 6, 10>> @@ 5 :> <<>> @@ 6 :> <<7>> @@ 7 :> <<8>> @@
  8 :> <<9>> @@ 9 :> <<>> @@ 10 :> <<11>> @@ 11 :> <<12>> @@
  12 :> <<13, 14, 15>> @@ 13 :> <<16>> @@ 14 :> <<>> @@ 15 :> <<>> @@
  16 :> <<>>

MCHostType == 3 :> "svg" @@ 11 :> "svg" @@ 13 :> "foreignObject" @@ 16 :> "div"

\* The portal renders into an <svg> element of the page.
MCContainerInfo == 0 :> rootC @@ 10 :> overlayC
MCContainerNs == rootC :> Html @@ overlayC :> Svg

=============================================================================
