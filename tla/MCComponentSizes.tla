-------------------------- MODULE MCComponentSizes --------------------------
EXTENDS LosslessTransform

Comp(h, v, q) == [h |-> h, v |-> v, q |-> q]

\* Luma and chroma: 1:1, 4:2:2, 4:2:0, 4:1:1, 4:1:0, ratios of three, four
\* and 3:2, sampling that is swapped between the components.
MCComponents ==
  {<<Comp(h, v, 0), Comp(1, 1, 1), Comp(1, 1, 1)>> : h, v \in {1, 2, 4}}
  \cup {<<Comp(3, 1, 0), Comp(1, 1, 1)>>, <<Comp(2, 1, 0), Comp(1, 2, 1)>>,
        <<Comp(4, 4, 0), Comp(2, 1, 1)>>, <<Comp(3, 2, 0), Comp(2, 1, 1)>>,
        <<Comp(1, 3, 0), Comp(1, 2, 1)>>, <<Comp(2, 2, 0)>>}

\* A colour and an alpha-like component that share one table.
SharedTable == {<<Comp(2, 2, 0), Comp(1, 1, 0)>>, <<Comp(2, 2, 0), Comp(1, 1, 1)>>}

MCImages == {[width |-> 1, height |-> 9], [width |-> 48, height |-> 32],
             [width |-> 37, height |-> 50]}
MCBlockSizes == {1, 3, 8, 11}
MCScales == {<<1, 1>>, <<8, 1>>, <<8, 3>>, <<5, 7>>, <<1, 4>>}
MCOutputs == {<<1, 8>>, <<1, 3>>, <<5, 8>>, <<1, 1>>, <<14, 8>>, <<3, 1>>}
Narrow == {[width |-> 1, height |-> 9], [width |-> 37, height |-> 50]}
Full == {<<1, 1>>}
DctSize == {8}
Accurate == {"islow", "float"}
AllMethods == {"islow", "ifast", "float"}

\* Requests.  A crop region of given, forced or open size, from either edge,
\* some of it outside of the smaller images.
Region(size, size_set, offset, offset_set) ==
  [size |-> size, size_set |-> size_set, offset |-> offset, offset_set |-> offset_set]
Whole == Region(0, "unset", 0, "pos")
Crops == {<<Region(0, "unset", 17, "pos"), Region(0, "unset", 9, "pos")>>,
          <<Region(20, "set", 5, "neg"), Whole>>,
          <<Region(17, "force", 9, "pos"), Region(8, "set", 3, "neg")>>,
          <<Whole, Region(24, "force", 0, "neg")>>}
Request(t, perfect, trim, gray, crop) ==
  [transform |-> t, perfect |-> perfect, trim |-> trim, force_grayscale |-> gray,
   crop_x |-> crop[1], crop_y |-> crop[2]]
MCRequests ==
  UNION {{Request(t, FALSE, trim, FALSE, crop) : trim \in BOOLEAN, crop \in Crops}
           \cup {Request(t, perfect, FALSE, gray, <<Whole, Whole>>) : perfect, gray \in BOOLEAN}
           \cup {Request(t, FALSE, TRUE, FALSE, <<Whole, Whole>>)} : t \in DOMAIN Steps}
MCTransformScales == {<<1, 1>>, <<5, 8>>}
MCTransformBlockSizes == {8, 11}
=============================================================================
