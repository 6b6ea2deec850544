---------------------------- MODULE MCBootHandoff ----------------------------
(***************************************************************************)
(* Five maps of one to five descriptors, so that the map may outgrow every *)
(* padding, in pages of two descriptors.                                   *)
(***************************************************************************)
EXTENDS BootHandoff

MCMaps ==
    {<< "Conventional" >>,
     << "BootServicesData", "LoaderData" >>,
     << "Conventional", "LoaderData", "ACPIReclaim" >>,
     << "Conventional", "LoaderCode", "RuntimeServicesData", "ACPINVS" >>,
     << "Unusable", "Conventional", "LoaderData", "RuntimeServicesData", "Conventional" >>}

===============================================================================
