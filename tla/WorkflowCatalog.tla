--------------------------- MODULE WorkflowCatalog ---------------------------
(***************************************************************************)
(* The workflows the license service offers (server/app/                   *)
(* workflow_catalog.py), as far as they decide which inputs a task has:    *)
(* "inputs" is what the workbench asks the user for, the rest is what the  *)
(* browser run (workflow_specs.py) later demands of the task.  One of each *)
(* shape in the catalog is here; labels, node ids and prompts are not.     *)
(***************************************************************************)
CONSTANT None     \* absent: no value, no default, no condition

\* An input: what it is called, "boolean", "number" (integers too), "text" or
\* "file", whether it is required, the switch it depends on, its default.
input_field(key, type, required, when, default) ==
  [key |-> key, type |-> type, required |-> required, when |-> when, default |-> default]

File(key)          == input_field(key, "file", TRUE, None, None)
Text(key, default) == input_field(key, "text", TRUE, None, default)

\* What the runner asks of a task: files to upload, texts and widgets to fill.
upload(key, required) == [key |-> key, required |-> required, fallback |-> None]

text(key) == [key |-> key, required |-> TRUE]

widget(key, type, default) ==
  [key |-> key, type |-> type, required |-> TRUE, default |-> default]

workflow(inputs, uploads, texts, widgets) ==
  [inputs |-> inputs, uploads |-> uploads, texts |-> texts, widgets |-> widgets]

\* Two files, and a third if a switch that is on by default says so.
person_replace ==
  workflow({input_field("upload_background", "boolean", TRUE, None, "on"),
            input_field("background", "file", FALSE, "upload_background", None),
            File("video"), File("model")},
           {upload("background", FALSE), upload("model", TRUE), upload("video", TRUE)},
           {},
           {widget("upload_background", "boolean", "on")})

\* Two files and two numbers with defaults.
animate_transfer ==
  workflow({File("motion_video"), File("reference_image"),
            input_field("motion_strength", "number", TRUE, None, "n0"),
            input_field("frame_load_cap", "number", TRUE, None, "n0")},
           {upload("motion_video", TRUE), upload("reference_image", TRUE)},
           {},
           {widget("motion_strength", "number", "n0"), widget("frame_load_cap", "number", "n0")})

\* Two files and a text with a default.
firered_ecommerce_tryon ==
  workflow({File("person"), File("garment"), Text("prompt", "t0")},
           {upload("person", TRUE), upload("garment", TRUE)},
           {text("prompt")}, {})

\* A text with a default, and nothing else.
krea2_realistic_4k ==
  workflow({Text("prompt", "t0")}, {}, {text("prompt")}, {})

\* Three files.
scail_multi_reference ==
  workflow({File("motion_video"), File("reference1"), File("reference2")},
           {upload("motion_video", TRUE), upload("reference1", TRUE), upload("reference2", TRUE)},
           {}, {})

WORKFLOW_CATALOG ==
  {person_replace, animate_transfer, firered_ecommerce_tryon, krea2_realistic_4k,
   scail_multi_reference}
=============================================================================
