---------------------------- MODULE CadreConfigs ----------------------------
(***************************************************************************)
(* The configurations under configs/, in the reduced form of DeployFunc:   *)
(* one definition for each script, whatever it passes to                   *)
(* export_config_json.                                                     *)
(***************************************************************************)
EXTENDS TLC

Bare == [dependencies |-> {}, apt |-> {}, precmds |-> FALSE, source |-> "none",
         url |-> FALSE, branch |-> FALSE, patch |-> FALSE,
         srcprecmds |-> FALSE, srcpostcmds |-> FALSE, build |-> <<>>,
         postcmds |-> FALSE]

Boost ==
  [Bare EXCEPT !.source = "archive", !.url = TRUE, !.build = <<"script">>,
               !.postcmds = TRUE]

COSMOSLibrary ==
  [Bare EXCEPT !.dependencies = {"boost"}, !.apt = {"pkgs"},
               !.source = "archive", !.build = <<"cmake", "make", "install">>]

Bayes ==
  [Bare EXCEPT !.source = "deb"]

Dsrcasn ==
  [Bare EXCEPT !.source = "deb"]

Ipc ==
  [Bare EXCEPT !.source = "deb"]

Pdkcommon ==
  [Bare EXCEPT !.source = "deb"]

Pdk ==
  [Bare EXCEPT !.dependencies = {"pdk-common"}, !.source = "deb"]

Simplecomms ==
  [Bare EXCEPT !.source = "deb"]

Pangolin ==
  [Bare EXCEPT !.dependencies = {"eigen3", "libjpeg-turbo"}, !.apt = {"pkgs"},
               !.source = "git", !.branch = TRUE,
               !.build = <<"cmake", "make", "install">>]

Armadillo ==
  [Bare EXCEPT !.dependencies = {"OpenBLAS"}, !.source = "git",
               !.branch = TRUE, !.build = <<"cmake", "make", "install">>]

Gf_orb_slam2 ==
  [Bare EXCEPT !.dependencies = {"boost", "armadillo", "Pangolin"},
               !.apt = {"pkgs"}, !.source = "git", !.branch = TRUE,
               !.patch = TRUE,
               !.build = <<"cmake", "make", "cmake", "make", "cmake", "make", "cmake", "make">>]

OpenBLAS ==
  [Bare EXCEPT !.apt = {"pkgs", "remove"}, !.source = "git", !.branch = TRUE,
               !.build = <<"cmake", "make", "install">>]

SuiteSparse ==
  [Bare EXCEPT !.dependencies = {"OpenBLAS", "cuda11"},
               !.apt = {"pkgs", "remove"}, !.source = "git", !.branch = TRUE,
               !.build = <<"enter", "make", "install">>]

Ceressolver ==
  [Bare EXCEPT !.dependencies = {"eigen3", "OpenBLAS", "SuiteSparse"},
               !.apt = {"pkgs"}, !.source = "git", !.branch = TRUE,
               !.build = <<"cmake", "make", "install">>]

G2o ==
  [Bare EXCEPT !.dependencies = {"eigen3", "OpenBLAS", "SuiteSparse"},
               !.apt = {"pkgs"}, !.source = "git", !.branch = TRUE,
               !.build = <<"cmake", "make", "install">>]

Cadre_init ==
  [Bare EXCEPT !.apt = {"pkgs", "pips"}, !.precmds = TRUE]

GPUJPEG ==
  [Bare EXCEPT !.dependencies = {"OpenCV3", "cuda11"}, !.source = "git",
               !.branch = TRUE, !.build = <<"cmake", "make", "install">>]

GeographicLib ==
  [Bare EXCEPT !.source = "git", !.branch = TRUE,
               !.build = <<"cmake", "make", "install">>]

GraphViz ==
  [Bare EXCEPT !.apt = {"pkgs"}, !.source = "archive", !.url = TRUE,
               !.build = <<"script", "make", "install">>]

Qt ==
  [Bare EXCEPT !.apt = {"pkgs"}, !.postcmds = TRUE]

JKQtPlotter ==
  [Bare EXCEPT !.dependencies = {"Qt"}, !.apt = {"remove"}, !.source = "git",
               !.branch = TRUE, !.build = <<"cmake", "make", "install">>]

LLVM ==
  [Bare EXCEPT !.source = "git", !.branch = TRUE,
               !.build = <<"cmake", "make", "install">>, !.postcmds = TRUE]

OpenCV3 ==
  [Bare EXCEPT
               !.dependencies = {"OpenCV3_contrib", "Qt", "ceres-solver", "eigen3", "libjpeg-turbo", "OpenBLAS", "cuda11"},
               !.apt = {"pkgs"}, !.source = "git", !.branch = TRUE,
               !.build = <<"cmake", "make", "install">>]

OpenCV3_contrib ==
  [Bare EXCEPT !.source = "git", !.branch = TRUE]

OpenSSL ==
  [Bare EXCEPT !.precmds = TRUE]

Ads ==
  [Bare EXCEPT !.source = "git", !.branch = TRUE,
               !.build = <<"qmake", "make", "install">>]

Arcgis ==
  [Bare EXCEPT !.source = "archive", !.build = <<"script">>]

Blitz ==
  [Bare EXCEPT !.source = "git", !.branch = TRUE,
               !.build = <<"cmake", "make", "install">>]

Cuda11 ==
  [Bare EXCEPT !.source = "other", !.url = TRUE, !.srcpostcmds = TRUE,
               !.postcmds = TRUE]

Cudnn8 ==
  [Bare EXCEPT !.dependencies = {"cuda11"}, !.source = "deb", !.url = TRUE,
               !.srcpostcmds = TRUE]

Eigen3 ==
  [Bare EXCEPT !.source = "git", !.branch = TRUE,
               !.build = <<"cmake", "install">>]

Gsl ==
  [Bare EXCEPT !.source = "archive", !.url = TRUE,
               !.build = <<"script", "make", "install">>]

Harfbuzz ==
  [Bare EXCEPT !.apt = {"pkgs", "remove"}, !.source = "git", !.branch = TRUE,
               !.build = <<"script", "make", "install">>]

LibcsvParse ==
  [Bare EXCEPT !.source = "archive", !.url = TRUE,
               !.build = <<"script", "make", "install">>]

Libjpegturbo ==
  [Bare EXCEPT !.source = "git", !.branch = TRUE,
               !.build = <<"cmake", "make", "install">>]

Nmealib ==
  [Bare EXCEPT !.source = "git", !.branch = TRUE, !.patch = TRUE,
               !.build = <<"enter", "make">>]

(***************************************************************************)
(* The json files that cadre_install.py finds, by the name each one gives. *)
(***************************************************************************)
Configurations ==
  "boost" :> Boost @@ "COSMOSLibrary" :> COSMOSLibrary @@ "bayes++" :> Bayes @@
  "dsrcasn" :> Dsrcasn @@ "ipc" :> Ipc @@ "pdk-common" :> Pdkcommon @@
  "pdk" :> Pdk @@ "simplecomms" :> Simplecomms @@ "Pangolin" :> Pangolin @@
  "armadillo" :> Armadillo @@ "gf_orb_slam2" :> Gf_orb_slam2 @@
  "OpenBLAS" :> OpenBLAS @@ "SuiteSparse" :> SuiteSparse @@
  "ceres-solver" :> Ceressolver @@ "g2o" :> G2o @@
  "cadre_init" :> Cadre_init @@ "GPUJPEG" :> GPUJPEG @@
  "GeographicLib" :> GeographicLib @@ "GraphViz" :> GraphViz @@ "Qt" :> Qt @@
  "JKQtPlotter" :> JKQtPlotter @@ "LLVM" :> LLVM @@ "OpenCV3" :> OpenCV3 @@
  "OpenCV3_contrib" :> OpenCV3_contrib @@ "OpenSSL" :> OpenSSL @@
  "ads" :> Ads @@ "arcgis" :> Arcgis @@ "blitz" :> Blitz @@
  "cuda11" :> Cuda11 @@ "cudnn8" :> Cudnn8 @@ "eigen3" :> Eigen3 @@
  "gsl" :> Gsl @@ "harfbuzz" :> Harfbuzz @@ "libcsv_parse++" :> LibcsvParse @@
  "libjpeg-turbo" :> Libjpegturbo @@ "nmealib" :> Nmealib
=============================================================================
